---- MODULE Spec2Model ----
(***************************************************************************)
(* A model of the SOLOMA moderation bot (second_try_SOLOMA):               *)
(*   - ModeratorAgent.analyze_message  (agents/agent_moderator.py)         *)
(*   - SpamDetectorAgent               (agents/agent_spam_detector.py)     *)
(*   - ModerationBot.process_message   (main.py)                           *)
(* and of the multi-level analyzer of the first bot (test):                *)
(*   - HeuristicAnalyzer, MultiLevelAnalyzer  (analyzers/)                 *)
(*   - DeepSeekAnalyzer, ContextualMentionTracker  (services/)            *)
(*   - MessageHandler1.handle_message   (handlers/message.py)              *)
(*                                                                         *)
(* Text is modelled character by character.  A character is a string: a    *)
(* Latin letter, digit or punctuation sign stands for itself, a Cyrillic   *)
(* lowercase letter is written "_" + its transliteration ("_i" is и) and a *)
(* Cyrillic uppercase letter "^" + the same ("^i" is И).  A Python str is  *)
(* a sequence of characters.                                               *)
(***************************************************************************)
EXTENDS Integers, Sequences, FiniteSets, TLC

\* ------------------------------------------------------------------------
\* Bounds of the model
\* ------------------------------------------------------------------------

\* The longest message, counted in pieces of the vocabulary (see Vocabulary).
MaxLen == 3

\* ------------------------------------------------------------------------
\* Characters and the str methods the code uses
\* ------------------------------------------------------------------------

Range(s) == {s[i] : i \in DOMAIN s}

\* абвгдеёжзийклмнопрстуфхцчшщъыьэюя
CyrLowerSeq ==
    <<"_a", "_b", "_v", "_g", "_d", "_e", "_yo", "_zh", "_z", "_i", "_j", "_k",
      "_l", "_m", "_n", "_o", "_p", "_r", "_s", "_t", "_u", "_f", "_h", "_c",
      "_ch", "_sh", "_sch", "_hard", "_y", "_soft", "_eh", "_yu", "_ya">>
\* АБВГДЕЁЖЗИЙКЛМНОПРСТУФХЦЧШЩЪЫЬЭЮЯ
CyrUpperSeq ==
    <<"^a", "^b", "^v", "^g", "^d", "^e", "^yo", "^zh", "^z", "^i", "^j", "^k",
      "^l", "^m", "^n", "^o", "^p", "^r", "^s", "^t", "^u", "^f", "^h", "^c",
      "^ch", "^sh", "^sch", "^hard", "^y", "^soft", "^eh", "^yu", "^ya">>
LatLowerSeq ==
    <<"a", "b", "c", "d", "e", "f", "g", "h", "i", "j", "k", "l", "m",
      "n", "o", "p", "q", "r", "s", "t", "u", "v", "w", "x", "y", "z">>
LatUpperSeq ==
    <<"A", "B", "C", "D", "E", "F", "G", "H", "I", "J", "K", "L", "M",
      "N", "O", "P", "Q", "R", "S", "T", "U", "V", "W", "X", "Y", "Z">>

CyrLower == Range(CyrLowerSeq)
CyrUpper == Range(CyrUpperSeq)
LatLower == Range(LatLowerSeq)
LatUpper == Range(LatUpperSeq)
Digits == {"0", "1", "2", "3", "4", "5", "6", "7", "8", "9"}
\* What \s matches, of the characters of the model.
Whitespace == {" ", "\n"}

\* The character class [А-Яа-яёЁA-Za-z0-9\-] of the token patterns.
TokenChars == CyrLower \cup CyrUpper \cup LatLower \cup LatUpper \cup Digits \cup {"-"}
\* The character class [А-Яа-яёЁ] of name_pair_pattern.
CyrChars == CyrLower \cup CyrUpper
\* What \w matches: \b lies between a \w character and a non-\w one.
WordChars == CyrLower \cup CyrUpper \cup LatLower \cup LatUpper \cup Digits \cup {"_"}

IndexOf(seq, c) == CHOOSE i \in DOMAIN seq : seq[i] = c

\* str.lower() on one character
LowerChar(c) ==
    IF c \in CyrUpper THEN CyrLowerSeq[IndexOf(CyrUpperSeq, c)]
    ELSE IF c \in LatUpper THEN LatLowerSeq[IndexOf(LatUpperSeq, c)]
    ELSE c

\* str.lower()
Lower(s) == SubSeq([i \in DOMAIN s |-> LowerChar(s[i])], 1, Len(s))

\* s[i:j] of Python with 1-based inclusive ends; empty when j < i
Slice(s, i, j) == IF j < i THEN <<>> ELSE SubSeq(s, i, j)

\* s.replace('  ', ' '): one pass from the left, occurrences do not overlap
RECURSIVE ReplaceDoubleSpace(_)
ReplaceDoubleSpace(s) ==
    IF Len(s) < 2 THEN s
    ELSE IF s[1] = " " /\ s[2] = " "
         THEN <<" ">> \o ReplaceDoubleSpace(Slice(s, 3, Len(s)))
         ELSE <<s[1]>> \o ReplaceDoubleSpace(Tail(s))

\* s.strip()
Strip(s) ==
    IF \A i \in DOMAIN s : s[i] \in Whitespace THEN <<>>
    ELSE LET lo == CHOOSE i \in DOMAIN s :
                       s[i] \notin Whitespace /\ \A k \in 1..(i - 1) : s[k] \in Whitespace
             hi == CHOOSE i \in DOMAIN s :
                       s[i] \notin Whitespace
                           /\ \A k \in (i + 1)..Len(s) : s[k] \in Whitespace
         IN  SubSeq(s, lo, hi)

\* ModeratorAgent._normalize
\*   s.lower().replace('ё', 'е').replace('  ', ' ').strip()
_normalize(s) ==
    LET low == Lower(s)
        yo  == [i \in DOMAIN low |-> IF low[i] = "_yo" THEN "_e" ELSE low[i]]
    IN  Strip(ReplaceDoubleSpace(yo))

\* The end of the longest run of characters of class C that starts at i
\* (s[i] is in C): what a greedy C+ consumes from i.
RunEnd(s, i, C) ==
    CHOOSE j \in i..Len(s) :
        /\ j = Len(s) \/ s[j + 1] \notin C
        /\ \A k \in i..j : s[k] \in C

\* re.findall(r"[C]+", s) from position i on: the maximal runs, left to right
RECURSIVE FindRuns(_, _, _)
FindRuns(s, i, C) ==
    IF i > Len(s) THEN <<>>
    ELSE IF s[i] \notin C THEN FindRuns(s, i + 1, C)
    ELSE LET j == RunEnd(s, i, C)
         IN  <<SubSeq(s, i, j)>> \o FindRuns(s, j + 1, C)

\* re.findall(r"[А-Яа-яёЁA-Za-z0-9\-]+", s)
FindTokens(s) == FindRuns(s, 1, TokenChars)

\* s.split(): the maximal runs of non-whitespace characters
Split(s) == FindRuns(s, 1, Range(s) \ Whitespace)

\* t occurs in s at position k
OccursAt(s, t, k) ==
    /\ k >= 1
    /\ k + Len(t) - 1 <= Len(s)
    /\ \A x \in 1..Len(t) : s[k + x - 1] = t[x]

\* w in s (substring test)
Contains(s, w) == \E k \in 1..Len(s) : OccursAt(s, w, k)

\* \b t \b matches in s at position k (t starts and ends with a \w character)
WordAt(s, t, k) ==
    /\ OccursAt(s, t, k)
    /\ k = 1 \/ s[k - 1] \notin WordChars
    /\ k + Len(t) > Len(s) \/ s[k + Len(t)] \notin WordChars

\* re.search(r"\b" + t0 + r"\b.*\b" + t1 + r"\b", s):
\* "." matches every character but the line break
OrderedWords(s, t0, t1) ==
    \E k0 \in 1..Len(s) : \E k1 \in 1..Len(s) :
        /\ WordAt(s, t0, k0)
        /\ WordAt(s, t1, k1)
        /\ k1 >= k0 + Len(t0)
        /\ \A k \in (k0 + Len(t0))..(k1 - 1) : s[k] # "\n"

\* ------------------------------------------------------------------------
\* difflib.SequenceMatcher(None, a, b).ratio()
\* ------------------------------------------------------------------------

\* The length of the longest common block that starts at a[i] and b[j]
\* inside a[..ahi], b[..bhi]
Extent(a, b, i, j, ahi, bhi) ==
    CHOOSE k \in 0..(ahi - i + 1) :
        /\ j + k - 1 <= bhi
        /\ \A x \in 0..(k - 1) : a[i + x] = b[j + x]
        /\ i + k > ahi \/ j + k > bhi \/ a[i + k] # b[j + k]

\* find_longest_match: the longest common block; of those the one that
\* starts earliest in a, and of those the one that starts earliest in b.
\* <<alo, blo, 0>> when there is none.
find_longest_match(a, b, alo, ahi, blo, bhi) ==
    LET blocks == {<<i, j, Extent(a, b, i, j, ahi, bhi)>> :
                      i \in alo..ahi, j \in blo..bhi}
    IN  CHOOSE x \in blocks :
            \A y \in blocks :
                \/ x[3] > y[3]
                \/ x[3] = y[3] /\ x[1] < y[1]
                \/ x[3] = y[3] /\ x[1] = y[1] /\ x[2] <= y[2]

\* The characters matched by get_matching_blocks: the longest block, then
\* the same to its left and to its right.
RECURSIVE MatchedChars(_, _, _, _, _, _)
MatchedChars(a, b, alo, ahi, blo, bhi) ==
    IF alo > ahi \/ blo > bhi THEN 0
    ELSE LET m == find_longest_match(a, b, alo, ahi, blo, bhi)
         IN  IF m[3] = 0 THEN 0
             ELSE m[3]
                  + MatchedChars(a, b, alo, m[1] - 1, blo, m[2] - 1)
                  + MatchedChars(a, b, m[1] + m[3], ahi, m[2] + m[3], bhi)

\* ratio() = 2.0 * matches / (len(a) + len(b)), 1.0 when both are empty;
\* kept as the fraction <<numerator, denominator>>
ratio(a, b) ==
    IF Len(a) + Len(b) = 0 THEN <<1, 1>>
    ELSE <<2 * MatchedChars(a, b, 1, Len(a), 1, Len(b)), Len(a) + Len(b)>>

\* Comparisons of fractions with positive denominators
FracGE(x, y) == x[1] * y[2] >= y[1] * x[2]
FracGT(x, y) == x[1] * y[2] > y[1] * x[2]

\* ------------------------------------------------------------------------
\* Words of the moderator's fixed lists
\* ------------------------------------------------------------------------

\* {'агент','мат','чел','тут','здесь','кто','что','новости','иноагент'}
token_blacklist ==
    { <<"_a", "_g", "_e", "_n", "_t">>,
      <<"_m", "_a", "_t">>,
      <<"_ch", "_e", "_l">>,
      <<"_t", "_u", "_t">>,
      <<"_z", "_d", "_e", "_s", "_soft">>,
      <<"_k", "_t", "_o">>,
      <<"_ch", "_t", "_o">>,
      <<"_n", "_o", "_v", "_o", "_s", "_t", "_i">>,
      <<"_i", "_n", "_o", "_a", "_g", "_e", "_n", "_t">> }

\* The list of the second guard, which lacks 'иноагент':
\* {'агент','мат','чел','тут','здесь','кто','что','новости'}
token_blacklist_classify ==
    token_blacklist \ { <<"_i", "_n", "_o", "_a", "_g", "_e", "_n", "_t">> }

\* {'ты','вы','он','она','они','кто','что','это','здесь','там'}
pronouns ==
    { <<"_t", "_y">>,
      <<"_v", "_y">>,
      <<"_o", "_n">>,
      <<"_o", "_n", "_a">>,
      <<"_o", "_n", "_i">>,
      <<"_k", "_t", "_o">>,
      <<"_ch", "_t", "_o">>,
      <<"_eh", "_t", "_o">>,
      <<"_z", "_d", "_e", "_s", "_soft">>,
      <<"_t", "_a", "_m">> }

\* ['встреча', 'встречается', 'часто', 'упоминается']
context_block ==
    { <<"_v", "_s", "_t", "_r", "_e", "_ch", "_a">>,
      <<"_v", "_s", "_t", "_r", "_e", "_ch", "_a", "_e", "_t", "_s", "_ya">>,
      <<"_ch", "_a", "_s", "_t", "_o">>,
      <<"_u", "_p", "_o", "_m", "_i", "_n", "_a", "_e", "_t", "_s", "_ya">> }

\* ["убью", "порв", "убь", "поджог", "взорв", "уничтож", "расстрел"]
threat_words ==
    { <<"_u", "_b", "_soft", "_yu">>,
      <<"_p", "_o", "_r", "_v">>,
      <<"_u", "_b", "_soft">>,
      <<"_p", "_o", "_d", "_zh", "_o", "_g">>,
      <<"_v", "_z", "_o", "_r", "_v">>,
      <<"_u", "_n", "_i", "_ch", "_t", "_o", "_zh">>,
      <<"_r", "_a", "_s", "_s", "_t", "_r", "_e", "_l">> }

\* ["дурак", "тупой", "идиот", "сволочь", "мерзавец", "ублюдок"]
rude_words ==
    { <<"_d", "_u", "_r", "_a", "_k">>,
      <<"_t", "_u", "_p", "_o", "_j">>,
      <<"_i", "_d", "_i", "_o", "_t">>,
      <<"_s", "_v", "_o", "_l", "_o", "_ch", "_soft">>,
      <<"_m", "_e", "_r", "_z", "_a", "_v", "_e", "_c">>,
      <<"_u", "_b", "_l", "_yu", "_d", "_o", "_k">> }

\* 'мат', the profanity-marker token of the early guard
w_mat == <<"_m", "_a", "_t">>

\* ------------------------------------------------------------------------
\* The registry as loaded at construction, and the words of the messages
\* ------------------------------------------------------------------------

w_Ivanov == <<"^i", "_v", "_a", "_n", "_o", "_v">>        \* Иванов
w_ivanov == <<"_i", "_v", "_a", "_n", "_o", "_v">>        \* иванов
w_ivan   == <<"_i", "_v", "_a", "_n">>                    \* иван
w_kto    == <<"_k", "_t", "_o">>                          \* кто
w_ty     == <<"_t", "_y">>                                \* ты
w_miron_lat == <<"m", "i", "r", "o", "n">>                \* miron
w_miron  == <<"_m", "_i", "_r", "_o", "_n">>              \* мирон
w_mirona == <<"_m", "_i", "_r", "_o", "_n", "_a">>        \* мирона
w_ubyu   == <<"_u", "_b", "_soft", "_yu">>                \* убью
w_durak  == <<"_d", "_u", "_r", "_a", "_k">>              \* дурак
w_chasto == <<"_ch", "_a", "_s", "_t", "_o">>             \* часто
w_url    == <<"h", "t", "t", "p", ":", "/", "/", "a">>    \* http://a

\* 'иванов иван'
fio_ivanov == w_ivanov \o <<" ">> \o w_ivan
\* 'петров петр ильич'
fio_petrov ==
    <<"_p", "_e", "_t", "_r", "_o", "_v", " ", "_p", "_e", "_t", "_r", " ",
      "_i", "_l", "_soft", "_i", "_ch">>
\* 'сидоров сидор', a name that is not in the registry
fio_sidorov ==
    <<"_s", "_i", "_d", "_o", "_r", "_o", "_v", " ", "_s", "_i", "_d", "_o", "_r">>

\* self.inoagents: the normalized full names found in the registry file.
\* The file holds the lines
\*    Иванов Иван
\*    Петров Петр Ильич, псевдоним "Miron"
inoagents == {fio_ivanov, fio_petrov}

\* self.pseudonyms, in insertion order: the alias of the second line and the
\* approximate Cyrillic form _lat_to_ru_approx derives from it.
pseudonyms ==
    << [alias |-> w_miron_lat, fio |-> fio_petrov],
       [alias |-> w_miron,     fio |-> fio_petrov] >>

\* The pieces messages are made of: a run of non-whitespace characters (empty
\* for a piece of whitespace alone) and the whitespace character after it.
Piece(chunk, sep) == [chunk |-> chunk, sep |-> sep]
Vocabulary ==
    { Piece(w_Ivanov, " "), Piece(w_ivanov, "\n"), Piece(w_ivan, " "),
      Piece(w_mat, " "), Piece(w_kto, " "), Piece(w_ty, " "),
      Piece(w_miron, " "), Piece(w_mirona, " "),
      Piece(w_ubyu, " "), Piece(w_durak, " "), Piece(w_chasto, " "),
      Piece(<<>>, "\n"), Piece(w_url, " ") }

\* Sequences of at most n elements of S
SeqsUpTo(S, n) == UNION {[1..k -> S] : k \in 0..n}

\* The messages: sequences of pieces
Messages == SeqsUpTo(Vocabulary, MaxLen)

\* The str a message is
RECURSIVE Text(_)
Text(m) ==
    IF m = <<>> THEN <<>>
    ELSE Head(m).chunk \o <<Head(m).sep>> \o Text(Tail(m))

\* ------------------------------------------------------------------------
\* State
\* ------------------------------------------------------------------------

VARIABLES
    pc,            \* where the running analyze_message call is suspended
    message,       \* its argument
    frame,         \* its locals that depend on the argument only
    tokIdx,        \* the index in msg_tokens of the per-token alias query in flight
    llmCalls,      \* how many times the call has invoked self.client.generate
    stages,        \* the stages of analyze_message the call has entered
    result,        \* the AnalysisResult it returned
    cls_response,  \* what the classification request was answered with
    small_named,   \* the registry entries the last per-token answer named
    raised         \* the exception that left analyze_message, "" when none did

modVars == <<pc, message, frame, tokIdx, llmCalls, stages, result, cls_response,
             small_named, raised>>

VARIABLES
    history,       \* SpamDetectorAgent.history: the window of recent messages
    spam_result,   \* the message and the SpamDetectionResult of the last check_spam
    adds,          \* how many calls of add_message the detector has served
    bans,          \* Storage: the users with an entry in bans.json
    violations,    \* Storage: how many violations violations.json holds per user
    stored,        \* Storage: the message history messages.json holds per user
    sentIn,        \* per chat, the texts process_message has been called with
    last,          \* what the last call of process_message did
    handled,       \* how many calls of process_message have run
    running,       \* the calls of process_message that run as concurrent tasks
    unban_cmd      \* the /unban command handled since the last message

spamVars == <<history, spam_result, adds>>
botVars == <<bans, violations, stored, sentIn, last, handled, running, unban_cmd>>

VARIABLES
    handler_pc,    \* where the running handle_message call is: idle, awaiting_llm, done
    user_text,     \* update.message.text of the call
    chat_id,       \* update.effective_chat.id of the call
    deletable,     \* whether update.message.delete() succeeds for the message
    heuristic_score,  \* what self.heuristic.analyze(text) returned to analyze
    llm_requests,  \* how many times the call has invoked analyze_toxicity
    llm_response,  \* what the request of analyze_toxicity came back with
    analysis,      \* the AnalysisResult MultiLevelAnalyzer.analyze returned
    error,         \* the exception that left handle_message, "" when none did
    remediated,    \* whether the call deleted the message and sent a warning
    banned_domains_mentioned,  \* ContextualMentionTracker: the domains per chat
    scored         \* the last call of HeuristicAnalyzer.analyze: text and score

handlerVars == <<handler_pc, user_text, chat_id, deletable, heuristic_score,
                 llm_requests, llm_response, analysis, error, remediated>>
analyzerVars == <<handlerVars, banned_domains_mentioned, scored>>

VARIABLES
    mention_history,    \* ContextualMentionTracker: the deque of mentions per chat
    checked_reference,  \* the last call of check_contextual_reference
    clock,              \* datetime.now(), in hours since the tracker was made
    cleanup_at,         \* the time of the last call of cleanup_old_mentions, -1 if none
    tracked             \* how many calls of track_mention have been made

trackerVars == <<mention_history, checked_reference, clock, cleanup_at, tracked>>

VARIABLES
    batch_pc,        \* batch_find_alternatives: idle, gathering, returned
    batch_urls,      \* the urls of the call
    max_concurrent,  \* the max_concurrent of the call
    semaphore,       \* the value of asyncio.Semaphore(max_concurrent)
    tasks,           \* the process_url task of each url
    cache,           \* EnhancedAlternativesAgent.cache: LRUCache.cache
    results          \* the dictionary the call returned

batchVars == <<batch_pc, batch_urls, max_concurrent, semaphore, tasks, results>>
alternativesVars == <<batchVars, cache>>

VARIABLES
    registry_order,  \* the order in which the set self.inoagents is iterated
    repeated         \* a message given to analyze_message twice, and the results

repeatVars == <<registry_order, repeated>>

VARIABLES
    self_inoagents,   \* ModeratorAgent.inoagents while _load_inoagents runs
    self_pseudonyms,  \* ModeratorAgent.pseudonyms while _load_inoagents runs
    lines_read        \* how many lines of the file the loop has read

loaderVars == <<self_inoagents, self_pseudonyms, lines_read>>

VARIABLES
    alias_checked    \* a run of the local passes of analyze_message on a mapping

\* The state of the services that stand beside the moderator and the bot
\* An LRUCache of its own (agents/agent_alternatives.py)
VARIABLES
    lru,                \* LRUCache.cache, the OrderedDict: least recently touched first
    lru_call,           \* the last call of get or put, the cache before it and what it returned
    touched_at          \* for every key, the number of the call that touched it last, 0 if none

lruVars == <<lru, lru_call, touched_at>>

serviceVars == <<trackerVars, alternativesVars, repeatVars, loaderVars, alias_checked, lruVars>>
vars == <<modVars, spamVars, botVars, analyzerVars, serviceVars>>

\* ------------------------------------------------------------------------
\* AnalysisResult and the answers of the LLM client
\* ------------------------------------------------------------------------

\* The reason of a result: its fixed wording, the registry names it lists and
\* the text it quotes (an exception message, the reason the LLM gave).
Reason(text, names, detail) == [text |-> text, names |-> names, detail |-> detail]
\* "Сообщение соответствует правилам"
REASON_OK == Reason("rules_ok", <<>>, "")
\* 'ненормативная лексика "для выразительности"'
REASON_MAT == Reason("profanity_for_expressiveness", <<>>, "")
\* f"Упоминание лица из реестра иноагентов: {', '.join(names)}"
REASON_REGISTRY(names) == Reason("registry_mention", names, "")
\* "Признак угроз/насилия"
REASON_THREAT == Reason("threat", <<>>, "")
\* "Грубость/оскорбление"
REASON_RUDE == Reason("rude", <<>>, "")
\* f"Ошибка при анализе: {str(e)}"
REASON_ERROR(e) == Reason("analysis_error", <<>>, e)
\* the text after ПРИЧИНА: in the answer of the LLM
REASON_LLM(text) == Reason("llm", <<>>, text)

AnalysisResult(category, reason, has_links, links) ==
    [category |-> category, reason |-> reason, has_links |-> has_links, links |-> links]

NoResult == AnalysisResult("", Reason("", <<>>, ""), FALSE, <<>>)
Categories == {"CLEAN", "CATEGORY_A", "CATEGORY_B", "CATEGORY_C", "ERROR"}

\* An answer of GigachatClient.generate:
\*   "raise"  it raised (RuntimeError on a non-200 status, a network error,
\*            a timeout of the session),
\*   "none"   it returned None (the content of the choice is null),
\*   "number" it returned a value that is neither None nor a str,
\*   "text"   it returned a str.
\* A str is described by what the code reads in it: fios, the full names the
\* name pattern finds in it (normalized); marks, the category marks it
\* contains ("A" for "CATEGORY_A", "B" for "CATEGORY_B", "C" for "CATEGORY_C",
\* "ogranicheny" for the word 'ограничены', "razgovory" for the word
\* 'разговоры'); reason, the text of its ПРИЧИНА: line ("" when it has none).
Response(kind, fios, marks, reason) ==
    [kind |-> kind, fios |-> fios, marks |-> marks, reason |-> reason]
NoResponse == Response("pending", {}, {}, "")
Raises == Response("raise", {}, {}, "")
ReturnsNone == Response("none", {}, {}, "")
ReturnsNumber == Response("number", {}, {}, "")

\* The full names an answer of the LLM may hold
LLMNames == {fio_ivanov, fio_sidorov}
\* The answers to the two alias requests
NameResponses ==
    {Raises, ReturnsNone, ReturnsNumber}
        \cup {Response("text", F, {}, "") : F \in SUBSET LLMNames}
\* The answers to the classification request: every combination of category
\* marks with a ПРИЧИНА: line, two answers without that line, and two
\* answers that hold one of the two words and no category mark
ClassifyResponses ==
    {Raises, ReturnsNone, ReturnsNumber}
        \cup {Response("text", {}, M, "reason given") : M \in SUBSET {"A", "B", "C"}}
        \cup {Response("text", {}, M, "") : M \in {{}, {"C"}}}
        \cup {Response("text", {}, {"razgovory"}, ""),
              Response("text", {}, {"ogranicheny"}, "reason given")}

\* str(e) of the exceptions the code can raise on an answer
ERR_REPLACE == "'int' object has no attribute 'replace'"

\* ------------------------------------------------------------------------
\* ModeratorAgent: helpers of analyze_message
\* ------------------------------------------------------------------------

HttpPrefix == <<"h", "t", "t", "p", ":", "/", "/">>
HttpsPrefix == <<"h", "t", "t", "p", "s", ":", "/", "/">>

\* re.findall(r'https?://[^\s]+', s) from position i on
RECURSIVE FindUrls(_, _)
FindUrls(s, i) ==
    IF i > Len(s) THEN <<>>
    ELSE LET n == IF OccursAt(s, HttpsPrefix, i) THEN 8
                  ELSE IF OccursAt(s, HttpPrefix, i) THEN 7 ELSE 0
         IN  IF n > 0 /\ i + n <= Len(s) /\ s[i + n] \notin Whitespace
             THEN LET j == RunEnd(s, i + n, Range(s) \ Whitespace)
                  IN  <<SubSeq(s, i, j)>> \o FindUrls(s, j + 1)
             ELSE FindUrls(s, i + 1)

\* ModeratorAgent.extract_urls
extract_urls(text) == FindUrls(text, 1)

\* name_pair_pattern.findall(s) from position i on:
\* ([А-Яа-яёЁ]+\s+[А-Яа-яёЁ]+), matches do not overlap
RECURSIVE FindNamePairs(_, _)
FindNamePairs(s, i) ==
    IF i > Len(s) THEN <<>>
    ELSE IF s[i] \notin CyrChars THEN FindNamePairs(s, i + 1)
    ELSE LET r1 == RunEnd(s, i, CyrChars)
         IN  IF r1 + 1 <= Len(s) /\ s[r1 + 1] \in Whitespace
             THEN LET w == RunEnd(s, r1 + 1, Whitespace)
                  IN  IF w + 1 <= Len(s) /\ s[w + 1] \in CyrChars
                      THEN LET r2 == RunEnd(s, w + 1, CyrChars)
                           IN  <<SubSeq(s, i, r2)>> \o FindNamePairs(s, r2 + 1)
                      ELSE FindNamePairs(s, i + 1)
             ELSE FindNamePairs(s, i + 1)

\* name_tokens and tokens: [t for t in s.split() if t]
tokens(s) == Split(s)

\* len(set(tokens(a)) & set(tokens(b))) >= 2
SharesTwoTokens(a, b) ==
    Cardinality(Range(tokens(a)) \cap Range(tokens(b))) >= 2

\* ModeratorAgent._ru_to_lat: the table of the function
ru_to_lat_table ==
    [c \in CyrLower |->
        CASE c = "_a" -> <<"a">>
          [] c = "_b" -> <<"b">>
          [] c = "_v" -> <<"v">>
          [] c = "_g" -> <<"g">>
          [] c = "_d" -> <<"d">>
          [] c = "_e" -> <<"e">>
          [] c = "_yo" -> <<"e">>
          [] c = "_zh" -> <<"z", "h">>
          [] c = "_z" -> <<"z">>
          [] c = "_i" -> <<"i">>
          [] c = "_j" -> <<"i">>
          [] c = "_k" -> <<"k">>
          [] c = "_l" -> <<"l">>
          [] c = "_m" -> <<"m">>
          [] c = "_n" -> <<"n">>
          [] c = "_o" -> <<"o">>
          [] c = "_p" -> <<"p">>
          [] c = "_r" -> <<"r">>
          [] c = "_s" -> <<"s">>
          [] c = "_t" -> <<"t">>
          [] c = "_u" -> <<"u">>
          [] c = "_f" -> <<"f">>
          [] c = "_h" -> <<"h">>
          [] c = "_c" -> <<"c">>
          [] c = "_ch" -> <<"c", "h">>
          [] c = "_sh" -> <<"s", "h">>
          [] c = "_sch" -> <<"s", "h">>
          [] c = "_hard" -> <<>>
          [] c = "_y" -> <<"y">>
          [] c = "_soft" -> <<>>
          [] c = "_eh" -> <<"e">>
          [] c = "_yu" -> <<"y", "u">>
          [] c = "_ya" -> <<"y", "a">>]

\* ModeratorAgent._ru_to_lat
RECURSIVE _ru_to_lat(_)
_ru_to_lat(s) ==
    IF s = <<>> THEN <<>>
    ELSE LET ch == LowerChar(Head(s))
         IN  (IF ch \in CyrLower THEN ru_to_lat_table[ch]
              ELSE IF ch \in LatLower \cup Digits THEN <<ch>>
              ELSE <<>>) \o _ru_to_lat(Tail(s))

\* re.sub(r'[^a-z0-9]', '', p)
AsciiOnly(p) == SelectSeq(p, LAMBDA c : c \in LatLower \cup Digits)

\* ------------------------------------------------------------------------
\* ModeratorAgent.analyze_message, stage by stage.  A stage yields the
\* control states the call can be in when it next suspends or returns.
\* ------------------------------------------------------------------------

\* The call has returned r
Done(r, st, n) ==
    [pc |-> "done", result |-> r, tokIdx |-> 0, llmCalls |-> n, stages |-> st,
     raised |-> ""]
\* The call awaits the answer to a request at p
Await(p, i, st, n) ==
    [pc |-> p, result |-> NoResult, tokIdx |-> i, llmCalls |-> n, stages |-> st,
     raised |-> ""]

\* local_candidates: the normalized word pairs of the message that hold no
\* pronoun and no stop-listed token
local_candidates(text) ==
    {_normalize(p) : p \in
        {q \in Range(FindNamePairs(text, 1)) :
            \A part \in Range(Split(_normalize(q))) :
                part \notin pronouns \cup token_blacklist}}

\* The locals of the call that depend on the message only:
\*   links = await self.extract_urls(message)
\*   msg_norm = self._normalize(message)
\*   norm_tokens: self._normalize(t) for t in msg_tokens, where
\*     msg_tokens = re.findall(r'[А-Яа-яёЁA-Za-z0-9\-]+', message)
\*     (simple_tokens and msg_tokens_check are the same list)
\*   local_candidates (assigned when the name-pair pass is reached)
Frame(text) ==
    LET msg_tokens == FindTokens(text)
    IN  [links            |-> extract_urls(text),
         msg_norm         |-> _normalize(text),
         norm_tokens      |-> [i \in DOMAIN msg_tokens |-> _normalize(msg_tokens[i])],
         local_candidates |-> local_candidates(text)]

\* AnalysisResult(category=..., reason=..., has_links=len(links) > 0, links=links)
ResultFor(f, category, reason) ==
    AnalysisResult(category, reason, Len(f.links) > 0, f.links)

\* A guard that lets only tokens through that are both listed and short
ShortAndListed(t0, blacklist) == t0 \in blacklist /\ Len(t0) < 3

\* The condition of the early guard on the only token of the message
ShortOrListed(t0, blacklist) == t0 \in blacklist \/ Len(t0) < 3

\* The result of the early guard
guard_result(f, t0) ==
    IF t0 = w_mat THEN ResultFor(f, "CATEGORY_B", REASON_MAT)
    ELSE ResultFor(f, "CLEAN", REASON_OK)

\* The registry names the direct pass accepts: at least two tokens of the
\* name are tokens of the message, and the first two occur as words in that
\* order in the normalized message.
DirectMatches(text, f) ==
    LET msg_tokens_set ==
            {_normalize(t) : t \in Range(FindTokens(Lower(text)))}
    IN  {name \in inoagents :
            /\ name # <<>>
            /\ LET n_tokens == tokens(name)
               IN  /\ Len(n_tokens) >= 2
                   /\ Cardinality({i \in DOMAIN n_tokens :
                                      n_tokens[i] \in msg_tokens_set}) >= 2
                   /\ OrderedWords(f.msg_norm, n_tokens[1], n_tokens[2])}

\* fuzzy_hits with a threshold of 0.60
fuzzy_hits_at_60(aliases, t_lat) ==
    {k \in DOMAIN aliases :
        LET p_ascii == AsciiOnly(aliases[k].alias)
        IN  /\ Len(p_ascii) >= 4
            /\ Len(t_lat) >= 4
            /\ FracGE(ratio(t_lat, p_ascii), <<60, 100>>)}

\* The aliases of the mapping, in insertion order, the fuzzy comparison
\* accepts for t_lat
fuzzy_hits(aliases, t_lat) ==
    {k \in DOMAIN aliases :
        LET p_ascii == AsciiOnly(aliases[k].alias)
        IN  /\ Len(p_ascii) >= 4
            /\ Len(t_lat) >= 4
            /\ FracGE(ratio(t_lat, p_ascii), <<80, 100>>)}

\* The aliases of self.pseudonyms the fuzzy comparison accepts for t_lat
FuzzyHits(t_lat) == fuzzy_hits(pseudonyms, t_lat)

NoName == <<>>

\* The loop over msg_tokens of the alias pass (lines 198-227) on the mapping
\* aliases, from token i on: the full name of the first hit, NoName when the
\* loop ends without one
RECURSIVE alias_pass(_, _, _)
alias_pass(aliases, norm_tokens, i) ==
    IF i > Len(norm_tokens) THEN NoName
    ELSE LET t_norm == norm_tokens[i]
             exact  == {k \in DOMAIN aliases : aliases[k].alias = t_norm}
         IN  IF Len(t_norm) < 3 \/ t_norm \in token_blacklist
             THEN alias_pass(aliases, norm_tokens, i + 1)
             ELSE IF exact # {}
             THEN aliases[CHOOSE k \in exact : \A j \in exact : k >= j].fio
             ELSE IF Len(t_norm) < 4
             THEN alias_pass(aliases, norm_tokens, i + 1)
             ELSE LET hits == fuzzy_hits(aliases, _ru_to_lat(t_norm))
                  IN  IF hits # {}
                      THEN aliases[CHOOSE k \in hits : \A j \in hits : k <= j].fio
                      ELSE alias_pass(aliases, norm_tokens, i + 1)

\* The alias pass on self.pseudonyms
alias_scan(norm_tokens, i) == alias_pass(pseudonyms, norm_tokens, i)

\* The next token, from index i on, the per-token alias query is made for;
\* 0 when there is none
NextQueried(norm_tokens, i) ==
    LET ok == {k \in i..Len(norm_tokens) :
                  ~(Len(norm_tokens[k]) < 3 \/ norm_tokens[k] \in token_blacklist)}
    IN  IF ok = {} THEN 0 ELSE CHOOSE k \in ok : \A j \in ok : k <= j

\* The registry names that share two tokens with a candidate
PairMatches(f) ==
    {reg \in inoagents : \E cand \in f.local_candidates : SharesTwoTokens(cand, reg)}

\* any(ctx in msg_norm for ctx in context_block)
InFrequencyContext(f) == \E ctx \in context_block : Contains(f.msg_norm, ctx)

\* A fallback that looks for the rude words before the threat words
fallback_rude_first(f) ==
    IF \E w \in rude_words : Contains(f.msg_norm, w)
    THEN AnalysisResult("CATEGORY_B", REASON_RUDE, Len(f.links) > 0, f.links)
    ELSE IF \E w \in threat_words : Contains(f.msg_norm, w)
    THEN AnalysisResult("CATEGORY_A", REASON_THREAT, Len(f.links) > 0, f.links)
    ELSE AnalysisResult("CLEAN", REASON_OK, Len(f.links) > 0, f.links)

\* The except branch of the classification: the offline keyword lists
fallback_result(f) ==
    IF \E w \in threat_words : Contains(f.msg_norm, w)
    THEN ResultFor(f, "CATEGORY_A", REASON_THREAT)
    ELSE IF \E w \in rude_words : Contains(f.msg_norm, w)
    THEN ResultFor(f, "CATEGORY_B", REASON_RUDE)
    ELSE ResultFor(f, "CLEAN", REASON_OK)

\* The category the parse of the answer yields
parsed_category(resp) ==
    IF resp.marks \cap {"A", "ogranicheny", "razgovory"} # {} THEN "CATEGORY_A"
    ELSE IF "B" \in resp.marks THEN "CATEGORY_B"
    ELSE IF "C" \in resp.marks THEN "CATEGORY_C"
    ELSE "CLEAN"

\* has_local_name: a name-like pair was extracted, or a token of the
\* message is a key of self.pseudonyms
has_local_name(f) ==
    \/ f.local_candidates # {}
    \/ \E i \in DOMAIN f.norm_tokens :
          \E k \in DOMAIN pseudonyms : pseudonyms[k].alias = f.norm_tokens[i]

\* A consistency check that never downgrades
never_downgraded(f, category, matched) == FALSE

\* The consistency check: CATEGORY_C of the LLM stands only with local
\* evidence (matched is empty wherever the classification is reached)
downgraded(f, category, matched) ==
    category = "CATEGORY_C" /\ matched = <<>> /\ ~has_local_name(f)

\* The try branch of the classification on a str answer
classified_result(f, resp) ==
    LET category == parsed_category(resp)
        reason   == IF category # "CLEAN" /\ resp.reason # ""
                    THEN REASON_LLM(resp.reason) ELSE REASON_OK
    IN  IF downgraded(f, category, <<>>)
        THEN ResultFor(f, "CLEAN", REASON_OK)
        ELSE ResultFor(f, category, reason)

\* An outermost handler that lets the exception leave the call
outer_reraise(e, st, n) ==
    [pc |-> "done", result |-> NoResult, tokIdx |-> 0, llmCalls |-> n,
     stages |-> st, raised |-> e]

\* The outermost except: the exception becomes an ERROR result
outer_except(e, st, n) ==
    [pc |-> "done", result |-> AnalysisResult("ERROR", REASON_ERROR(e), FALSE, <<>>),
     tokIdx |-> 0, llmCalls |-> n, stages |-> st, raised |-> ""]

\* Lines 357-407: the second single-token guard, then the classification request
classify_stage(f, st, n) ==
    IF Len(f.norm_tokens) = 1 /\ ShortOrListed(f.norm_tokens[1], token_blacklist_classify)
    THEN {Done(guard_result(f, f.norm_tokens[1]), st, n)}
    ELSE {Await("classify", 0, st \cup {"classify_llm"}, n + 1)}

\* Lines 299-315: the request for the full names of the people mentioned
alias_llm_stage(f, st, n) == {Await("alias", 0, st \cup {"alias_llm"}, n + 1)}

\* The name-pair pass without the filter of lines 287-290
pair_stage_unfiltered(f, st, n) ==
    IF PairMatches(f) # {}
    THEN {Done(ResultFor(f, "CATEGORY_C", REASON_REGISTRY(<<reg>>)), st \cup {"pair"}, n) :
             reg \in PairMatches(f)}
    ELSE alias_llm_stage(f, st \cup {"pair"}, n)

\* Lines 261-297: the loose name-pair pass
pair_stage(f, st, n) ==
    IF PairMatches(f) # {} /\ ~InFrequencyContext(f)
    THEN {Done(ResultFor(f, "CATEGORY_C", REASON_REGISTRY(<<reg>>)), st \cup {"pair"}, n) :
             reg \in PairMatches(f)}
    ELSE alias_llm_stage(f, st \cup {"pair"}, n)

\* Lines 231-259: the per-token alias queries, from token i on
token_llm_stage(f, i, st, n) ==
    LET k == NextQueried(f.norm_tokens, i)
    IN  IF k = 0 THEN pair_stage(f, st, n)
        ELSE {Await("alias_small", k, st \cup {"token_llm"}, n + 1)}

\* Lines 198-227: the exact and the fuzzy alias pass
alias_stage(f, st) ==
    LET fio == alias_scan(f.norm_tokens, 1)
    IN  IF fio # NoName
        THEN {Done(ResultFor(f, "CATEGORY_C", REASON_REGISTRY(<<fio>>)),
                   st \cup {"alias"}, 0)}
        ELSE token_llm_stage(f, 1, st \cup {"alias"}, 0)

\* Lines 167-196: the direct pass over the registry
registry_stage(text, f) ==
    LET hits == DirectMatches(text, f)
    IN  IF hits # {}
        THEN {Done(ResultFor(f, "CATEGORY_C", REASON_REGISTRY(<<name>>)),
                   {"registry"}, 0) : name \in hits}
        ELSE alias_stage(f, {"registry"})

\* Lines 148-165: the links, the early guard, then the local passes
analyze_message(text, f) ==
    IF Len(f.norm_tokens) = 1 /\ ShortOrListed(f.norm_tokens[1], token_blacklist)
    THEN {Done(guard_result(f, f.norm_tokens[1]), {}, 0)}
    ELSE registry_stage(text, f)

\* Line 252 calls tokens, a local of analyze_message that the def of line 276
\* binds only later: the call raises UnboundLocalError.
tokens_bound_at_line_252 == FALSE

\* Lines 244-256: the answer to the per-token alias query for token i
on_alias_small(f, i, resp, st, n) ==
    IF resp.kind \in {"raise", "number"}
    THEN pair_stage(f, st, n)                      \* except Exception: pass
    ELSE IF resp.kind = "none" \/ resp.fios = {}
    THEN token_llm_stage(f, i + 1, st, n)          \* continue, or no name found
    ELSE IF ~tokens_bound_at_line_252
    THEN pair_stage(f, st, n)                      \* except Exception: pass
    ELSE LET hits == {reg \in inoagents :
                         \E found \in resp.fios : SharesTwoTokens(found, reg)}
         IN  IF hits # {}
             THEN {Done(ResultFor(f, "CATEGORY_C", REASON_REGISTRY(<<reg>>)), st, n) :
                      reg \in hits}
             ELSE token_llm_stage(f, i + 1, st, n)

\* matched: for each found name the first registry name that shares two
\* tokens with it, in the order the set found_fios is iterated
RECURSIVE matched_lists(_)
matched_lists(found_fios) ==
    IF found_fios = {} THEN {<<>>}
    ELSE UNION {
            LET regs == {reg \in inoagents : SharesTwoTokens(x, reg)}
                here == IF regs = {} THEN {<<>>} ELSE {<<reg>> : reg \in regs}
            IN  {h \o rest : h \in here, rest \in matched_lists(found_fios \ {x})}
            : x \in found_fios}

\* Lines 312-354: the answer to the alias request
on_alias(f, resp, st, n) ==
    IF resp.kind = "number"
    THEN {outer_except(ERR_REPLACE, st, n)}        \* alias_resp.replace raises
    ELSE LET found_fios == IF resp.kind = "text" THEN resp.fios ELSE {}
         IN  UNION {IF matched # <<>>
                    THEN {Done(ResultFor(f, "CATEGORY_C", REASON_REGISTRY(matched)), st, n)}
                    ELSE classify_stage(f, st, n)
                    : matched \in matched_lists(found_fios)}

\* Lines 406-473: the answer to the classification request
on_classify(f, resp, st, n) ==
    IF resp.kind = "text"
    THEN {Done(classified_result(f, resp), st, n)}
    ELSE {Done(fallback_result(f), st, n)}         \* except Exception

\* ------------------------------------------------------------------------
\* SpamDetectorAgent
\* ------------------------------------------------------------------------

\* self.similarity_threshold: SPAM_SIMILARITY_THRESHOLD, 0.85 unless the
\* environment sets it, as a fraction
SPAM_SIMILARITY_THRESHOLD == <<85, 100>>

\* history_size of the deque (MESSAGE_HISTORY_SIZE, 10 unless the environment
\* sets it)
HistorySize == 2

\* {"text": message, "user_id": user_id}
Entry(text, user_id) == [text |-> text, user_id |-> user_id]

SpamDetectionResult(is_spam, similarity_score, similar_message) ==
    [is_spam |-> is_spam, similarity_score |-> similarity_score,
     similar_message |-> similar_message]

\* SpamDetectorAgent._calculate_similarity
_calculate_similarity(text1, text2) == ratio(Lower(text1), Lower(text2))

\* How many calls of add_message a run of the detector alone holds
MaxAdds == 3

\* A window that, once full, keeps its entries and drops the new one
add_message_keeps_oldest(hist, text, user_id) ==
    IF Len(hist) >= HistorySize THEN hist
    ELSE Append(hist, Entry(text, user_id))

\* SpamDetectorAgent.add_message: append to a deque of maxlen HistorySize
add_message(hist, text, user_id) ==
    LET h == Append(hist, Entry(text, user_id))
    IN  IF Len(h) > HistorySize THEN Tail(h) ELSE h

\* The loop of check_spam from entry i on; best holds max_similarity and
\* similar_msg
RECURSIVE scan_history(_, _, _, _)
scan_history(hist, text, i, best) ==
    IF i > Len(hist) THEN best
    ELSE LET similarity == _calculate_similarity(text, hist[i].text)
         IN  scan_history(hist, text, i + 1,
                 IF FracGT(similarity, best.max_similarity)
                 THEN [max_similarity |-> similarity, similar_msg |-> hist[i].text]
                 ELSE best)

\* check_spam reporting the closest entry whatever the verdict
check_spam_keeps_match(hist, text) ==
    LET best    == scan_history(hist, text, 1,
                       [max_similarity |-> <<0, 1>>, similar_msg |-> <<>>])
        is_spam == FracGE(best.max_similarity, SPAM_SIMILARITY_THRESHOLD)
    IN  SpamDetectionResult(is_spam, best.max_similarity, best.similar_msg)

\* SpamDetectorAgent.check_spam
check_spam(hist, text) ==
    LET best    == scan_history(hist, text, 1,
                       [max_similarity |-> <<0, 1>>, similar_msg |-> <<>>])
        is_spam == FracGE(best.max_similarity, SPAM_SIMILARITY_THRESHOLD)
    IN  SpamDetectionResult(is_spam, best.max_similarity,
                            IF is_spam THEN best.similar_msg ELSE <<>>)

\* The texts given to the detector: the empty text, texts that differ in
\* case only, and texts on both sides of the threshold
s_ab == <<"a", "b">>
s_AB == <<"A", "B">>
s_abcdef == <<"a", "b", "c", "d", "e", "f">>
s_abcdex == <<"a", "b", "c", "d", "e", "x">>
s_abcdefg == <<"a", "b", "c", "d", "e", "f", "g">>
s_abcdefx == <<"a", "b", "c", "d", "e", "f", "x">>
SpamTexts == {<<>>, s_ab, s_AB, s_abcdef, s_abcdex, s_abcdefg, s_abcdefx}

Users == {"u1", "u2"}
Chats == {"chatA", "chatB"}

\* No check has been made on the window as it is
NoCheck ==
    [checked |-> FALSE, text |-> <<>>,
     result |-> SpamDetectionResult(FALSE, <<0, 1>>, <<>>)]

\* ------------------------------------------------------------------------
\* ModerationBot.process_message and Storage
\* ------------------------------------------------------------------------

\* MAX_VIOLATIONS_FOR_BAN, 3 unless the environment sets it
MAX_VIOLATIONS_FOR_BAN == 3

\* How many calls of process_message a run holds
MaxHandled == 4

\* Every result analyze_message can return from the control states C, over
\* all the answers of the LLM
RECURSIVE complete(_, _)
complete(C, f) ==
    UNION {IF c.pc = "done" THEN {c.result}
           ELSE IF c.pc = "alias_small"
           THEN complete(UNION {on_alias_small(f, c.tokIdx, resp, c.stages, c.llmCalls) :
                                   resp \in NameResponses}, f)
           ELSE IF c.pc = "alias"
           THEN complete(UNION {on_alias(f, resp, c.stages, c.llmCalls) :
                                   resp \in NameResponses}, f)
           ELSE complete(UNION {on_classify(f, resp, c.stages, c.llmCalls) :
                                   resp \in ClassifyResponses}, f)
           : c \in C}

\* analysis = await self.moderator.analyze_message(message_text)
analyze_results(text) == complete(analyze_message(text, Frame(text)), Frame(text))

\* The texts sent to the bot: a registry name, the same name in another
\* case, a threat
t_name == w_ivanov \o <<" ">> \o w_ivan
t_Name == w_Ivanov \o <<" ">> \o w_ivan
BotTexts == {t_name, t_Name, w_ubyu}

\* Texts that are not similar to one another for the spam detector, and that
\* the classification can put in any category: two threats and an insult
t_threat == w_ubyu \o <<" ">> \o w_durak
BanTexts == {w_ubyu, w_durak, t_threat}

\* The categories analyze_message can give each text
Verdicts ==
    UNION {{<<t, r.category>> : r \in analyze_results(t)} : t \in BotTexts \cup BanTexts}

\* What a call of process_message did; earlier holds the texts sent in the
\* chat before the call
Handled(chat, user, text, outcome, spam, category, earlier) ==
    [chat |-> chat, user |-> user, text |-> text, outcome |-> outcome,
     spam |-> spam, category |-> category, earlier |-> earlier]
NotHandled == Handled("", "", <<>>, "none", NoCheck.result, "", {})

\* Storage.add_violation: the new number of violations of the user
add_violation(viol, user) == [viol EXCEPT ![user] = @ + 1]

\* Storage.add_message
store_message(st, user, text, chat) ==
    [st EXCEPT ![user] = Append(@, [text |-> text, chat_id |-> chat])]

\* ------------------------------------------------------------------------
\* The moderator as a state machine: one call of analyze_message at a time,
\* suspended at each await of self.client.generate.
\* ------------------------------------------------------------------------

Resume(c) ==
    /\ pc' = c.pc
    /\ result' = c.result
    /\ tokIdx' = c.tokIdx
    /\ llmCalls' = c.llmCalls
    /\ stages' = c.stages
    /\ raised' = c.raised

\* analyze_message(message) is called and runs up to its first await or return
Start ==
    /\ pc = "idle"
    /\ \E m \in Messages :
          /\ message' = Text(m)
          /\ frame' = Frame(message')
          /\ \E c \in analyze_message(message', frame') : Resume(c)
    /\ cls_response' = NoResponse
    /\ small_named' = {}
    /\ UNCHANGED <<spamVars, botVars, analyzerVars, serviceVars>>

\* The registry entries that share two tokens with a full name of the answer
named_entries(resp) ==
    IF resp.kind # "text" THEN {}
    ELSE {reg \in inoagents : \E found \in resp.fios : SharesTwoTokens(found, reg)}

\* The per-token alias query is answered
AliasSmallResponse ==
    /\ pc = "alias_small"
    /\ \E resp \in NameResponses :
          /\ small_named' = named_entries(resp)
          /\ \E c \in on_alias_small(frame, tokIdx, resp, stages, llmCalls) : Resume(c)
    /\ UNCHANGED <<message, frame, cls_response>>
    /\ UNCHANGED <<spamVars, botVars, analyzerVars, serviceVars>>

\* The alias request is answered
AliasResponse ==
    /\ pc = "alias"
    /\ \E resp \in NameResponses :
          \E c \in on_alias(frame, resp, stages, llmCalls) : Resume(c)
    /\ UNCHANGED <<message, frame, cls_response, small_named>>
    /\ UNCHANGED <<spamVars, botVars, analyzerVars, serviceVars>>

\* The classification request is answered
ClassifyResponse ==
    /\ pc = "classify"
    /\ \E resp \in ClassifyResponses :
          /\ cls_response' = resp
          /\ \E c \in on_classify(frame, resp, stages, llmCalls) : Resume(c)
    /\ UNCHANGED <<message, frame, small_named>>
    /\ UNCHANGED <<spamVars, botVars, analyzerVars, serviceVars>>

\* The caller has the result; the agent is ready for the next call
Return ==
    /\ pc = "done"
    /\ pc' = "idle"
    /\ message' = <<>>
    /\ frame' = Frame(<<>>)
    /\ tokIdx' = 0
    /\ llmCalls' = 0
    /\ stages' = {}
    /\ result' = NoResult
    /\ cls_response' = NoResponse
    /\ small_named' = {}
    /\ raised' = ""
    /\ UNCHANGED <<spamVars, botVars, analyzerVars, serviceVars>>

\* ------------------------------------------------------------------------
\* The spam detector as a state machine
\* ------------------------------------------------------------------------

\* add_message(text, user_id); a result of check_spam describes the window
\* it was made on and is dropped when the window changes
AddMessage ==
    /\ adds < MaxAdds
    /\ adds' = adds + 1
    /\ \E text \in SpamTexts, user \in Users :
          history' = add_message(history, text, user)
    /\ spam_result' = NoCheck
    /\ UNCHANGED <<modVars, botVars, analyzerVars, serviceVars>>

\* check_spam(text)
CheckSpam ==
    /\ \E text \in SpamTexts :
          spam_result' = [checked |-> TRUE, text |-> text,
                          result |-> check_spam(history, text)]
    /\ UNCHANGED <<history, adds, modVars, botVars, analyzerVars, serviceVars>>

\* ------------------------------------------------------------------------
\* The bot as a state machine: the calls of process_message run one after
\* the other
\* ------------------------------------------------------------------------

\* _handle_category_a: the violation is recorded, the user is banned at
\* MAX_VIOLATIONS_FOR_BAN
handle_category_a(user) ==
    /\ violations' = add_violation(violations, user)
    /\ bans' = IF violations'[user] >= MAX_VIOLATIONS_FOR_BAN
               THEN bans \cup {user} ELSE bans

\* _handle_category_b: the violation is recorded
handle_category_b(user) ==
    /\ violations' = add_violation(violations, user)
    /\ bans' = bans

\* process_message on a message without text: return
IgnoreMessage(chat, user) ==
    /\ last' = Handled(chat, user, <<>>, "ignored", NoCheck.result, "", sentIn[chat])
    /\ UNCHANGED <<history, adds, bans, violations, stored, sentIn>>

\* process_message on a message of a banned user: reply and return
RejectBanned(chat, user, text) ==
    /\ last' = Handled(chat, user, text, "banned", NoCheck.result, "", sentIn[chat])
    /\ sentIn' = [sentIn EXCEPT ![chat] = @ \cup {text}]
    /\ UNCHANGED <<history, adds, bans, violations, stored>>

\* process_message on a message check_spam flags: reply and return
RejectSpam(chat, user, text, spam) ==
    /\ last' = Handled(chat, user, text, "spam", spam, "", sentIn[chat])
    /\ sentIn' = [sentIn EXCEPT ![chat] = @ \cup {text}]
    /\ UNCHANGED <<history, adds, bans, violations, stored>>

\* process_message on the other messages: analysis, both histories, then
\* the handling of the category
Moderate(chat, user, text, spam, category) ==
    /\ last' = Handled(chat, user, text, "moderated", spam, category, sentIn[chat])
    /\ sentIn' = [sentIn EXCEPT ![chat] = @ \cup {text}]
    /\ history' = add_message(history, text, user)
    /\ adds' = adds + 1
    /\ stored' = store_message(stored, user, text, chat)
    /\ IF category = "CATEGORY_A" THEN handle_category_a(user)
       ELSE IF category = "CATEGORY_B" THEN handle_category_b(user)
       ELSE UNCHANGED <<bans, violations>>

\* process_message with the check of the ban after the check of the window
process_message_spam_first(chat, user, text, spam) ==
    IF text = <<>> THEN IgnoreMessage(chat, user)
    ELSE IF spam.is_spam THEN RejectSpam(chat, user, text, spam)
    ELSE IF user \in bans THEN RejectBanned(chat, user, text)
    ELSE \E v \in Verdicts :
            v[1] = text /\ Moderate(chat, user, text, spam, v[2])

\* The body of process_message, spam being the result of check_spam on the
\* window as the call finds it
process_message(chat, user, text, spam) ==
    IF text = <<>> THEN IgnoreMessage(chat, user)
    ELSE IF user \in bans THEN RejectBanned(chat, user, text)
    ELSE IF spam.is_spam THEN RejectSpam(chat, user, text, spam)
    ELSE \E v \in Verdicts :
            v[1] = text /\ Moderate(chat, user, text, spam, v[2])

\* ModerationBot.process_message
ProcessMessage ==
    /\ handled < MaxHandled
    /\ handled' = handled + 1
    /\ \E text \in BotTexts \cup {<<>>} :
          \E spam \in {check_spam(history, text)} :
             \E chat \in Chats, user \in Users :
                process_message(chat, user, text, spam)
    /\ UNCHANGED <<modVars, spam_result, running, unban_cmd, analyzerVars, serviceVars>>

\* ------------------------------------------------------------------------
\* Bans: process_message and the /unban command, one update after the other
\* ------------------------------------------------------------------------

\* An /unban command: whether is_admin held for its sender, the user it
\* names, and what it did
Unban(is_admin, target, outcome) ==
    [called |-> TRUE, is_admin |-> is_admin, target |-> target, outcome |-> outcome]
NoUnban == [called |-> FALSE, is_admin |-> FALSE, target |-> "", outcome |-> ""]

\* Storage.unban_user
unban_user(b, user) == b \ {user}

\* Storage.clear_violations left out
clear_violations_skipped(viol, user) == viol

\* Storage.clear_violations
clear_violations(viol, user) == [viol EXCEPT ![user] = 0]

\* ModerationBot.unban_command with the id of a user as its argument
UnbanCommand ==
    /\ ~unban_cmd.called
    /\ \E is_admin \in BOOLEAN, target \in Users :
          IF ~is_admin
          THEN /\ unban_cmd' = Unban(is_admin, target, "not_admin")
               /\ UNCHANGED <<bans, violations>>
          ELSE IF target \notin bans
          THEN /\ unban_cmd' = Unban(is_admin, target, "not_banned")
               /\ UNCHANGED <<bans, violations>>
          ELSE /\ unban_cmd' = Unban(is_admin, target, "unbanned")
               /\ bans' = unban_user(bans, target)
               /\ violations' = clear_violations(violations, target)
    /\ UNCHANGED <<history, adds, stored, sentIn, last, handled, running>>
    /\ UNCHANGED <<modVars, spam_result, analyzerVars, serviceVars>>

\* The chat the messages of these runs are sent in
BanChat == "chatA"

\* ModerationBot.process_message on the next message of the chat
ProcessNextMessage ==
    /\ handled < MaxHandled
    /\ handled' = handled + 1
    /\ unban_cmd' = NoUnban
    /\ \E text \in BanTexts :
          \E spam \in {check_spam(history, text)} :
             \E user \in Users :
                process_message(BanChat, user, text, spam)
    /\ UNCHANGED <<modVars, spam_result, running, analyzerVars, serviceVars>>

\* ------------------------------------------------------------------------
\* process_message as concurrent tasks of one event loop: a task runs until
\* an await that waits for the network (a request of the LLM client, a call
\* of the Telegram API), and the other tasks run while it waits
\* ------------------------------------------------------------------------

\* The tasks
Callers == {"c1", "c2"}

\* The texts sent to them: a registry name, a threat, the stop-listed word
\* the early guard answers with CATEGORY_B
ConcurrentTexts == {t_name, w_ubyu, w_mat}

\* The categories analyze_message can give each of the texts
ConcurrentVerdicts ==
    UNION {{<<t, r.category>> : r \in analyze_results(t)} : t \in ConcurrentTexts}

\* The texts for which process_message goes from check_spam to add_message
\* without waiting: analyze_message returns without a request to the LLM
\* (its own awaits end at once) and the spellchecker, asked for CLEAN and
\* CATEGORY_C only, is not called
RunThrough ==
    {t \in ConcurrentTexts :
        \A c \in analyze_message(t, Frame(t)) :
            c.pc = "done" /\ c.result.category \notin {"CLEAN", "CATEGORY_C"}}

\* A call of process_message: where it is, its update, the result of its
\* check_spam, the category of its analysis, the violation_count of
\* _handle_category_a and what the call did
Call(at, chat, user, text, spam, category, violation_count, outcome) ==
    [pc |-> at, chat |-> chat, user |-> user, text |-> text, spam |-> spam,
     category |-> category, violation_count |-> violation_count,
     outcome |-> outcome]
NotCalled == Call("idle", "", "", <<>>, NoCheck.result, "", 0, "none")

\* Lines 115-139 of process_message and the start of _handle_category_a or
\* _handle_category_b: both histories, then the violation; category A waits
\* for update.message.delete() before it looks at the count
AfterAnalysis(k, chat, user, text, spam, category) ==
    /\ history' = add_message(history, text, user)
    /\ adds' = adds + 1
    /\ stored' = store_message(stored, user, text, chat)
    /\ bans' = bans
    /\ IF category = "CATEGORY_A"
       THEN /\ violations' = add_violation(violations, user)
            /\ running' = [running EXCEPT ![k] =
                    Call("deleting", chat, user, text, spam, category,
                         violations'[user], "moderated")]
       ELSE /\ violations' = IF category = "CATEGORY_B"
                             THEN add_violation(violations, user)
                             ELSE violations
            /\ running' = [running EXCEPT ![k] =
                    Call("done", chat, user, text, spam, category, 0, "moderated")]

\* Lines 57-93: the ban check, check_spam, and the analysis up to its first
\* request
StartCall(k) ==
    /\ running[k].pc = "idle"
    /\ \E chat \in Chats, user \in Users, text \in ConcurrentTexts :
          \E spam \in {check_spam(history, text)} :
             IF user \in bans
             THEN /\ running' = [running EXCEPT ![k] =
                        Call("done", chat, user, text, NoCheck.result, "", 0, "banned")]
                  /\ UNCHANGED <<history, adds, stored, bans, violations>>
             ELSE IF spam.is_spam
             THEN /\ running' = [running EXCEPT ![k] =
                        Call("done", chat, user, text, spam, "", 0, "spam")]
                  /\ UNCHANGED <<history, adds, stored, bans, violations>>
             ELSE IF text \in RunThrough
             THEN \E v \in ConcurrentVerdicts :
                     v[1] = text /\ AfterAnalysis(k, chat, user, text, spam, v[2])
             ELSE /\ running' = [running EXCEPT ![k] =
                        Call("analysing", chat, user, text, spam, "", 0, "none")]
                  /\ UNCHANGED <<history, adds, stored, bans, violations>>
    /\ UNCHANGED <<modVars, spam_result, sentIn, last, handled, unban_cmd, analyzerVars, serviceVars>>

\* The requests of the analysis and of the spellchecker are answered
AnalysisEnds(k) ==
    /\ running[k].pc = "analysing"
    /\ \E c \in {running[k]}, v \in ConcurrentVerdicts :
          v[1] = c.text /\ AfterAnalysis(k, c.chat, c.user, c.text, c.spam, v[2])
    /\ UNCHANGED <<modVars, spam_result, sentIn, last, handled, unban_cmd, analyzerVars, serviceVars>>

\* Lines 155-170 of _handle_category_a: update.message.delete() has ended,
\* the user is banned if the count add_violation returned is at the limit
DeleteEnds(k) ==
    /\ running[k].pc = "deleting"
    /\ bans' = IF running[k].violation_count >= MAX_VIOLATIONS_FOR_BAN
               THEN bans \cup {running[k].user} ELSE bans
    /\ running' = [running EXCEPT ![k].pc = "done"]
    /\ UNCHANGED <<history, adds, stored, violations>>
    /\ UNCHANGED <<modVars, spam_result, sentIn, last, handled, unban_cmd, analyzerVars, serviceVars>>

\* ------------------------------------------------------------------------
\* Python floats: IEEE-754 doubles
\* ------------------------------------------------------------------------

\* A natural number is the sequence of its binary digits, the lowest first,
\* without zeros at the top. A float that is not negative is the natural
\* number of units of 2^-57 it holds: 0.0 and the floats from 2^-5 on, which
\* are the ones the analyzers compute with, hold a whole number of them.

\* The digit i of a, 0 above its top
Digit(a, i) == IF i \in DOMAIN a THEN a[i] ELSE 0

\* The one element of a set of one element: v in {e} is e evaluated once
TheOne(S) == CHOOSE v \in S : TRUE

\* The digits d[1..n] without the zeros at the top
Trim(d, n) ==
    TheOne({IF \A i \in 1..n : s[i] = 0 THEN <<>>
            ELSE SubSeq(s, 1, CHOOSE i \in 1..n :
                                 s[i] = 1 /\ \A j \in (i + 1)..n : s[j] = 0) :
               s \in {SubSeq(d, 1, n)}})

\* The carry into digit i of a + b: some digit below i is 1 in both, and
\* from there up to i exactly one of the two digits is 1
CarryInto(a, b, i) ==
    IF \E j \in 1..(i - 1) :
          /\ Digit(a, j) = 1
          /\ Digit(b, j) = 1
          /\ \A k \in (j + 1)..(i - 1) : Digit(a, k) # Digit(b, k)
    THEN 1 ELSE 0

\* a + b
NatAdd(x, y) ==
    TheOne({LET n == (IF Len(a) > Len(b) THEN Len(a) ELSE Len(b)) + 1
            IN  Trim([i \in 1..n |->
                         (Digit(a, i) + Digit(b, i) + CarryInto(a, b, i)) % 2], n) :
               a \in {x}, b \in {y}})

\* a * 2^k
ShiftLeft(a, k) == IF a = <<>> THEN a ELSE [i \in 1..k |-> 0] \o a

\* a \div 2^k
ShiftRight(a, k) == IF Len(a) <= k THEN <<>> ELSE SubSeq(a, k + 1, Len(a))

\* The binary digits of the int n
Bits(n) == Trim([i \in 1..31 |-> (n \div (2 ^ (i - 1))) % 2], 31)

\* The int the digits lo .. hi of a make
RECURSIVE ValueOf(_, _, _)
ValueOf(a, lo, hi) ==
    IF hi < lo THEN 0 ELSE Digit(a, lo) + 2 * ValueOf(a, lo + 1, hi)

\* The i-th group of 14 digits of a, from 0, as an int
Limb(a, i) == IF i < 0 THEN 0 ELSE ValueOf(a, 14 * i + 1, 14 * i + 14)

\* The sum of the products of the limbs of a and b (naturals below 2^70)
\* that weigh 2^(14 * k)
Column(a, b, k) ==
      Limb(a, 0) * Limb(b, k) + Limb(a, 1) * Limb(b, k - 1)
    + Limb(a, 2) * Limb(b, k - 2) + Limb(a, 3) * Limb(b, k - 3)
    + Limb(a, 4) * Limb(b, k - 4)

\* The columns k .. 8 of a * b, added up
RECURSIVE Columns(_, _, _)
Columns(a, b, k) ==
    IF k > 8 THEN <<>>
    ELSE NatAdd(ShiftLeft(Bits(Column(a, b, k)), 14 * k), Columns(a, b, k + 1))

\* a * b of naturals below 2^70
NatMul(a, b) == Columns(a, b, 0)

\* a < b
NatLess(a, b) ==
    \/ Len(a) < Len(b)
    \/ /\ Len(a) = Len(b)
       /\ \E i \in DOMAIN a :
             /\ a[i] < b[i]
             /\ \A j \in (i + 1)..Len(a) : a[j] = b[j]

\* The natural a rounded to 53 significant digits, to the nearest and on a
\* tie to the even one
RoundToDouble(x) ==
    TheOne({IF Len(a) <= 53 THEN a
            ELSE LET cut    == Len(a) - 53
                     kept   == SubSeq(a, cut + 1, Len(a))
                     sticky == \E i \in 1..(cut - 1) : a[i] = 1
                     up     == a[cut] = 1 /\ (sticky \/ kept[1] = 1)
                 IN  ShiftLeft(IF up THEN NatAdd(kept, <<1>>) ELSE kept, cut) :
               a \in {x}})

\* The float that float.hex() writes 0x1.hhhhhhhhhhhhhp+e, from the thirteen
\* hexadecimal digits h (the first one first) and the exponent e >= -5
FloatHex(h, e) ==
    ShiftLeft([i \in 1..53 |->
                  IF i = 53 THEN 1
                  ELSE (h[13 - ((i - 1) \div 4)] \div (2 ^ ((i - 1) % 4))) % 2],
              e + 5)

\* x + y of floats
FloatAdd(x, y) == RoundToDouble(NatAdd(x, y))

\* x * y of floats; the product of the analyzers, which is above 0.2, has no
\* digit below the unit
FloatMul(x, y) == ShiftRight(RoundToDouble(NatMul(x, y)), 57)

\* x < y, x > y, x >= y of floats
FloatLT(x, y) == NatLess(x, y)
FloatGT(x, y) == NatLess(y, x)
FloatGE(x, y) == ~NatLess(x, y)

\* min(x, y) and max(x, y) of Python: the first argument unless the second
\* is smaller (larger)
FloatMin(x, y) == IF NatLess(y, x) THEN y ELSE x
FloatMax(x, y) == IF NatLess(x, y) THEN y ELSE x

\* 0.0
F_0_0 == <<>>
\* 0.05 = 0x1.999999999999ap-5
F_0_05 == FloatHex(<<9, 9, 9, 9, 9, 9, 9, 9, 9, 9, 9, 9, 10>>, -5)
\* 0.1 = 0x1.999999999999ap-4
F_0_1 == FloatHex(<<9, 9, 9, 9, 9, 9, 9, 9, 9, 9, 9, 9, 10>>, -4)
\* 0.2 = 0x1.999999999999ap-3
F_0_2 == FloatHex(<<9, 9, 9, 9, 9, 9, 9, 9, 9, 9, 9, 9, 10>>, -3)
\* 0.3 = 0x1.3333333333333p-2
F_0_3 == FloatHex(<<3, 3, 3, 3, 3, 3, 3, 3, 3, 3, 3, 3, 3>>, -2)
\* 0.6 = 0x1.3333333333333p-1
F_0_6 == FloatHex(<<3, 3, 3, 3, 3, 3, 3, 3, 3, 3, 3, 3, 3>>, -1)
\* 0.7 = 0x1.6666666666666p-1
F_0_7 == FloatHex(<<6, 6, 6, 6, 6, 6, 6, 6, 6, 6, 6, 6, 6>>, -1)
\* 0.8 = 0x1.999999999999ap-1
F_0_8 == FloatHex(<<9, 9, 9, 9, 9, 9, 9, 9, 9, 9, 9, 9, 10>>, -1)
\* 0.9 = 0x1.ccccccccccccdp-1
F_0_9 == FloatHex(<<12, 12, 12, 12, 12, 12, 12, 12, 12, 12, 12, 12, 13>>, -1)
\* 1.0 = 0x1.0000000000000p+0
F_1_0 == FloatHex(<<0, 0, 0, 0, 0, 0, 0, 0, 0, 0, 0, 0, 0>>, 0)
\* 1.3 = 0x1.4cccccccccccdp+0
F_1_3 == FloatHex(<<4, 12, 12, 12, 12, 12, 12, 12, 12, 12, 12, 12, 13>>, 0)

\* 0.5, 0.75, 0.85, 0.95 and 1.5, scores an LLM answer can carry
F_0_5 == FloatHex(<<0, 0, 0, 0, 0, 0, 0, 0, 0, 0, 0, 0, 0>>, -1)
F_0_75 == FloatHex(<<8, 0, 0, 0, 0, 0, 0, 0, 0, 0, 0, 0, 0>>, -1)
F_0_85 == FloatHex(<<11, 3, 3, 3, 3, 3, 3, 3, 3, 3, 3, 3, 3>>, -1)
F_0_95 == FloatHex(<<14, 6, 6, 6, 6, 6, 6, 6, 6, 6, 6, 6, 6>>, -1)
F_1_5 == FloatHex(<<8, 0, 0, 0, 0, 0, 0, 0, 0, 0, 0, 0, 0>>, 0)

\* A number with its sign: a float of the analyzers or a number of a JSON
\* answer. The magnitude of a negative number is not 0.
Float(x) == [neg |-> FALSE, mag |-> x]
Minus(x) == [neg |-> TRUE, mag |-> x]

\* x < y, x > y, x >= y of numbers
NumLT(x, y) ==
    IF x.neg # y.neg THEN x.neg
    ELSE IF x.neg THEN NatLess(y.mag, x.mag)
    ELSE NatLess(x.mag, y.mag)
NumGT(x, y) == NumLT(y, x)
NumGE(x, y) == ~NumLT(x, y)

\* max(x, y) of Python: x unless y is larger
NumMax(x, y) == IF NumLT(x, y) THEN y ELSE x

\* ------------------------------------------------------------------------
\* HeuristicAnalyzer (test/analyzers/heuristic.py)
\* ------------------------------------------------------------------------

\* HeuristicAnalyzer.danger_phrases: the word of each pattern, and whether
\* the pattern ends with \b (r'\bтерроризм' does not)
danger_phrases ==
    << [word |-> <<"_u", "_b", "_i", "_t", "_soft">>, closed |-> TRUE],
       [word |-> <<"_u", "_n", "_i", "_ch", "_t", "_o", "_zh", "_i", "_t", "_soft">>,
        closed |-> TRUE],
       [word |-> <<"_s", "_m", "_e", "_r", "_t", "_soft">>, closed |-> TRUE],
       [word |-> <<"_n", "_e", "_n", "_a", "_v", "_i", "_zh", "_u">>, closed |-> TRUE],
       [word |-> <<"_t", "_e", "_r", "_r", "_o", "_r", "_i", "_z", "_m">>, closed |-> FALSE],
       [word |-> <<"_v", "_z", "_o", "_r", "_v", "_a", "_t", "_soft">>, closed |-> TRUE],
       [word |-> <<"_s", "_t", "_r", "_e", "_l", "_ya", "_t", "_soft">>, closed |-> TRUE],
       [word |-> <<"_v", "_o", "_j", "_n", "_a">>, closed |-> TRUE] >>

\* HeuristicAnalyzer.aggressive_words: ублюдок, мудак, тварь, сволочь, сука
aggressive_words ==
    << <<"_u", "_b", "_l", "_yu", "_d", "_o", "_k">>,
       <<"_m", "_u", "_d", "_a", "_k">>,
       <<"_t", "_v", "_a", "_r", "_soft">>,
       <<"_s", "_v", "_o", "_l", "_o", "_ch", "_soft">>,
       <<"_s", "_u", "_k", "_a">> >>

\* re.search(phrase, s) for a pattern of danger_phrases
SearchPhrase(phrase, s) ==
    \E k \in 1..Len(s) :
        IF phrase.closed THEN WordAt(s, phrase.word, k)
        ELSE /\ OccursAt(s, phrase.word, k)
             /\ k = 1 \/ s[k - 1] \notin WordChars

\* len(s.split()): one word starts at every character that is not whitespace
\* and follows whitespace or the start of s
WordCount(s) ==
    Cardinality({i \in 1..Len(s) :
                    /\ s[i] \notin Whitespace
                    /\ i = 1 \/ s[i - 1] \in Whitespace})

\* The increments the two loops of HeuristicAnalyzer.analyze add
danger_increment == F_0_1
aggressive_increment == F_0_05

\* for phrase in self.danger_phrases: if re.search(...): score += 0.1
RECURSIVE danger_loop(_, _, _)
danger_loop(text_lower, i, score) ==
    IF i > Len(danger_phrases) THEN score
    ELSE danger_loop(text_lower, i + 1,
                     IF SearchPhrase(danger_phrases[i], text_lower)
                     THEN FloatAdd(score, danger_increment) ELSE score)

\* for word in self.aggressive_words: if word in text_lower: score += 0.05
RECURSIVE aggressive_loop(_, _, _)
aggressive_loop(text_lower, i, score) ==
    IF i > Len(aggressive_words) THEN score
    ELSE aggressive_loop(text_lower, i + 1,
                         IF Contains(text_lower, aggressive_words[i])
                         THEN FloatAdd(score, aggressive_increment) ELSE score)

\* the score after the two loops
heuristic_sum(text) ==
    TheOne({aggressive_loop(low, 1, danger_loop(low, 1, F_0_0)) :
               low \in {Lower(text)}})

\* HeuristicAnalyzer.analyze without the clamp of its last line
analyze_unclamped(text) ==
    TheOne({IF WordCount(text) > 20 /\ FloatGT(score, F_0_2)
            THEN FloatMul(score, F_1_3) ELSE score :
               score \in {heuristic_sum(text)}})

\* HeuristicAnalyzer.analyze
analyze(text) ==
    TheOne({FloatMin(IF WordCount(text) > 20 /\ FloatGT(score, F_0_2)
                     THEN FloatMul(score, F_1_3) ELSE score, F_1_0) :
               score \in {heuristic_sum(text)}})

\* ------------------------------------------------------------------------
\* ContextualMentionTracker (test/services/context_tracker.py)
\* ------------------------------------------------------------------------

\* ContextualMentionTracker.context_patterns: each pattern is
\* (first|...).*?(second|...), written as its two sets of alternatives;
\* ссылк[ау] is ссылка|ссылку
context_patterns ==
    << [first |-> { <<"_p", "_o", "_m", "_n", "_i", "_t", "_e">>,
                    <<"_p", "_o", "_m", "_n", "_i", "_sh", "_soft">>,
                    <<"_a", " ", "_p", "_o", "_m", "_n", "_i", "_t", "_e">>,
                    <<"_a", " ", "_p", "_o", "_m", "_n", "_i", "_sh", "_soft">> },
        second |-> { <<"_s", "_a", "_j", "_t">>,
                     <<"_r", "_e", "_s", "_u", "_r", "_s">>,
                     <<"_s", "_s", "_y", "_l", "_k", "_a">>,
                     <<"_s", "_s", "_y", "_l", "_k", "_u">> }],
       [first |-> { <<"_t", "_o", "_t">>,
                    <<"_t", "_o", "_t", " ", "_s", "_a", "_m", "_y", "_j">> },
        second |-> { <<"_s", "_a", "_j", "_t">>,
                     <<"_r", "_e", "_s", "_u", "_r", "_s">> }],
       [first |-> { <<"_z", "_a", "_b", "_l", "_o", "_k", "_i", "_r", "_o", "_v", "_a", "_l", "_i">>,
                    <<"_z", "_a", "_p", "_r", "_e", "_t", "_i", "_l", "_i">> },
        second |-> { <<"_s", "_a", "_j", "_t">>,
                     <<"_r", "_e", "_s", "_u", "_r", "_s">> }],
       [first |-> { <<"_r", "_a", "_n", "_e", "_e">>,
                    <<"_r", "_a", "_n", "_soft", "_sh", "_e">> },
        second |-> { <<"_u", "_p", "_o", "_m", "_i", "_n", "_a", "_l">>,
                     <<"_s", "_s", "_y", "_l", "_a", "_l", "_s", "_ya">> }],
       [first |-> { <<"_k", "_o", "_t", "_o", "_r", "_y", "_j">>,
                    <<"_k", "_o", "_t", "_o", "_r", "_u", "_yu">> },
        second |-> { <<"_z", "_a", "_b", "_l", "_o", "_k", "_i", "_r", "_o", "_v", "_a", "_l", "_i">>,
                     <<"_u", "_d", "_a", "_l", "_i", "_l", "_i">> }] >>

\* re.search(pattern, s) for a pattern of context_patterns: an alternative of
\* the first group, then characters other than the line break, then an
\* alternative of the second group
SearchContext(pattern, s) ==
    \E a \in pattern.first : \E i \in 1..Len(s) :
        /\ OccursAt(s, a, i)
        /\ \E b \in pattern.second : \E j \in (i + Len(a))..Len(s) :
              /\ OccursAt(s, b, j)
              /\ \A k \in (i + Len(a))..(j - 1) : s[k] # "\n"

\* domain.split('.')[0]
DomainName(domain) ==
    IF "." \notin Range(domain) THEN domain
    ELSE SubSeq(domain, 1, (CHOOSE i \in DOMAIN domain :
                               domain[i] = "." /\ \A k \in 1..(i - 1) : domain[k] # ".") - 1)

\* d.get(key, default) of a dict, which is a function on its keys
get(d, key, default) == IF key \in DOMAIN d THEN d[key] ELSE default

\* d[key] = value
setitem(d, key, value) ==
    [k \in DOMAIN d \cup {key} |-> IF k = key THEN value ELSE d[k]]

\* any(re.search(pattern, text_lower) for pattern in self.context_patterns)
has_context(text_lower) ==
    \E p \in DOMAIN context_patterns : SearchContext(context_patterns[p], text_lower)

\* check_contextual_reference with a scan of the domains of every chat
check_reference_any_chat(mentioned, text, chat) ==
    IF ~has_context(Lower(text)) THEN {}
    ELSE {domain \in UNION {mentioned[c] : c \in DOMAIN mentioned} :
             /\ Len(DomainName(domain)) > 3
             /\ Contains(Lower(text), DomainName(domain))}

\* ContextualMentionTracker.check_contextual_reference: the domains of the
\* violations it returns, mentioned being banned_domains_mentioned
check_contextual_reference(mentioned, text, chat) ==
    LET text_lower == Lower(text)
    IN  IF ~has_context(text_lower) THEN {}
        ELSE {domain \in get(mentioned, chat, {}) :
                 /\ Len(DomainName(domain)) > 3
                 /\ Contains(text_lower, DomainName(domain))}

\* ContextualMentionTracker.__init__: max_history
max_history == 50

\* deque(maxlen=max_history).append(entry)
deque_append(q, entry) ==
    IF Len(q) = max_history THEN Append(Tail(q), entry) ELSE Append(q, entry)

\* ------------------------------------------------------------------------
\* DeepSeekAnalyzer (test/services/deepseek.py)
\* ------------------------------------------------------------------------

\* A member of a JSON object: absent, or a value of some kind
Absent == [kind |-> "absent", value |-> Float(F_0_0)]
JNull == [kind |-> "null", value |-> Float(F_0_0)]
JNumber(n) == [kind |-> "number", value |-> n]
JText(s) == [kind |-> "string", value |-> s]
JTextScore == [kind |-> "string", value |-> Float(F_0_0)]
NoMember == [kind |-> "absent", value |-> ""]

\* What json.loads gives for the content of an answer: a JSON object with
\* its members toxicity_score and risk_level, or a value that is no object
JObject(score, level) == [type |-> "object", toxicity_score |-> score, risk_level |-> level]
NotAnObject == [type |-> "array", toxicity_score |-> Absent, risk_level |-> NoMember]

\* DeepSeekAnalyzer._fallback_analysis
_fallback_analysis == JObject(JNumber(Float(F_0_0)), JText("low"))

\* DeepSeekAnalyzer.analyze_toxicity on what the request came back with:
\* status 200 and a content that json.loads accepts give the parsed content;
\* another status, and every exception, give the fallback
analyze_toxicity(response) ==
    IF response.outcome = "status 200" /\ response.valid_json
    THEN response.json
    ELSE _fallback_analysis

\* ------------------------------------------------------------------------
\* MultiLevelAnalyzer (test/analyzers/multi_level.py)
\* ------------------------------------------------------------------------

\* ANALYSIS_CONFIG
fast_check_threshold == F_0_3
deep_analysis_threshold == F_0_6
critical_threshold == F_0_8

\* models.analysis.AnalysisResult, the fields the handler reads
Analysis(risk_level, final_score, actions, analysis_type) ==
    [risk_level |-> risk_level, final_score |-> final_score,
     actions |-> actions, analysis_type |-> analysis_type]

\* no AnalysisResult: analyze has not returned
NoAnalysis == Analysis("", Float(F_0_0), <<>>, "")

\* an RKN check that reports the messages of more than one word
rkn_check_reports(text) ==
    IF \E i \in DOMAIN text : text[i] = " " THEN <<"blocked">> ELSE <<>>

\* MultiLevelAnalyzer._check_rkn_violations: the violations it reports
_check_rkn_violations(text) == <<>>

\* MultiLevelAnalyzer._create_rkn_violation_result
_create_rkn_violation_result ==
    Analysis("critical", Float(F_1_0),
             <<"delete_message", "warn_user", "report_to_admins">>, "rkn_check")

\* MultiLevelAnalyzer._create_context_violation_result
_create_context_violation_result ==
    Analysis("high", Float(F_0_8), <<"warn_user", "notify_moderators">>, "context_check")

\* the result of level 3 below fast_check_threshold with a warning asked for
low_result_warns(score) == Analysis("low", Float(score), <<"warn_user">>, "heuristic")

\* the result of level 3 between the two thresholds called high
medium_result_as_high(score) == Analysis("high", Float(score), <<>>, "heuristic")

\* the result of level 3 below fast_check_threshold
low_result(score) == Analysis("low", Float(score), <<>>, "heuristic")

\* the result of level 3 between the two thresholds
medium_result(score) == Analysis("medium", Float(score), <<>>, "heuristic")

\* MultiLevelAnalyzer.analyze up to the call of _perform_deep_analysis, score
\* being self.heuristic.analyze(text): the result it returns, or that it
\* goes on to the deep analysis
levels(mentioned, text, chat, score) ==
    IF _check_rkn_violations(text) # <<>>
    THEN [escalate |-> FALSE, result |-> _create_rkn_violation_result]
    ELSE IF check_contextual_reference(mentioned, text, chat) # {}
    THEN [escalate |-> FALSE, result |-> _create_context_violation_result]
    ELSE IF FloatLT(score, fast_check_threshold)
    THEN [escalate |-> FALSE, result |-> low_result(score)]
    ELSE IF FloatGT(score, deep_analysis_threshold)
    THEN [escalate |-> TRUE, result |-> NoAnalysis]
    ELSE [escalate |-> FALSE, result |-> medium_result(score)]

\* MultiLevelAnalyzer._perform_deep_analysis after analyze_toxicity has
\* returned llm_result: the exception it raises, "" when it returns
deep_analysis_error(llm_result) ==
    IF llm_result.type # "object" THEN "AttributeError"
    ELSE IF llm_result.toxicity_score.kind \in {"null", "string"} THEN "TypeError"
    ELSE ""

\* llm_result.get('toxicity_score', 0)
toxicity_score(llm_result) ==
    IF llm_result.toxicity_score.kind = "absent" THEN Float(F_0_0)
    ELSE llm_result.toxicity_score.value

\* llm_result.get('risk_level', 'medium')
reported_risk_level(llm_result) ==
    IF llm_result.risk_level.kind = "absent" THEN "medium"
    ELSE llm_result.risk_level.value

\* _perform_deep_analysis taking the score of the LLM alone
deep_analysis_llm_score_only(heuristic, llm_result) ==
    LET final_score == toxicity_score(llm_result)
    IN  Analysis(reported_risk_level(llm_result), final_score,
                 IF NumGT(final_score, Float(critical_threshold))
                 THEN <<"warn_user">> ELSE <<>>,
                 "deep_llm")

\* MultiLevelAnalyzer._perform_deep_analysis, when it returns
_perform_deep_analysis(heuristic, llm_result) ==
    LET final_score == NumMax(Float(heuristic), toxicity_score(llm_result))
    IN  Analysis(reported_risk_level(llm_result), final_score,
                 IF NumGT(final_score, Float(critical_threshold))
                 THEN <<"warn_user">> ELSE <<>>,
                 "deep_llm")

\* ------------------------------------------------------------------------
\* MessageHandler1 (test/handlers/message.py)
\* ------------------------------------------------------------------------

\* What handle_message does with the message after the analysis: whether the
\* message is deleted and whether a warning is sent. deletable is whether
\* update.message.delete() succeeds.
remediation(res, can_delete) ==
    IF NumGE(res.final_score, Float(F_0_9))
    THEN [deleted |-> can_delete, warned |-> FALSE]
    ELSE IF res.risk_level = "critical"
    THEN [deleted |-> can_delete, warned |-> can_delete]
    ELSE IF res.risk_level = "high"
    THEN [deleted |-> FALSE, warned |-> TRUE]
    ELSE IF res.risk_level = "medium" /\ NumGT(res.final_score, Float(F_0_7))
    THEN [deleted |-> FALSE, warned |-> TRUE]
    ELSE [deleted |-> FALSE, warned |-> FALSE]

\* nothing is done with the message
NoRemediation == [deleted |-> FALSE, warned |-> FALSE]

\* ------------------------------------------------------------------------
\* The messages and the LLM answers of the model of the analyzer
\* ------------------------------------------------------------------------

\* the first n words of words, each followed by a space
RECURSIVE FirstWords(_, _)
FirstWords(words, n) ==
    IF n = 0 THEN <<>> ELSE FirstWords(words, n - 1) \o words[n] \o <<" ">>

\* the words of danger_phrases
danger_words == [i \in DOMAIN danger_phrases |-> danger_phrases[i].word]

\* n times the word 'и' and a space
Filler(n) == [i \in 1..(2 * n) |-> IF i % 2 = 1 THEN "_i" ELSE " "]

\* How many words 'и' a message is filled up with: none, and the numbers
\* that make a message of three danger words 20 and 24 words long
FillCounts == {0, 17, 21}

\* the message of d danger words, a aggressive words and fill words 'и'
Composed(d, a, fill) ==
    FirstWords(danger_words, d) \o FirstWords(aggressive_words, a) \o Filler(fill)

\* 'УБИТЬ', 'убить убить', 'убитьи', 'терроризма', 'барсука',
\* 'помните тот сайт' and the command '/убить'
SpecialTexts ==
    { <<"^u", "^b", "^i", "^t", "^soft">>,
      <<"_u", "_b", "_i", "_t", "_soft", " ", "_u", "_b", "_i", "_t", "_soft">>,
      <<"_u", "_b", "_i", "_t", "_soft", "_i">>,
      <<"_t", "_e", "_r", "_r", "_o", "_r", "_i", "_z", "_m", "_a">>,
      <<"_b", "_a", "_r", "_s", "_u", "_k", "_a">>,
      <<"_p", "_o", "_m", "_n", "_i", "_t", "_e", " ", "_t", "_o", "_t", " ",
        "_s", "_a", "_j", "_t">>,
      <<"/", "_u", "_b", "_i", "_t", "_soft">> }

\* the texts HeuristicAnalyzer.analyze is applied to
HeuristicTexts ==
    {Composed(d, a, fill) :
        d \in 0..Len(danger_phrases), a \in 0..Len(aggressive_words), fill \in FillCounts}
        \cup SpecialTexts

\* the messages the handler is given: a text message is not empty
AnalyzerTexts == HeuristicTexts \ {<<>>}

\* user_text.startswith('/')
IsCommand(text) == Len(text) > 0 /\ text[1] = "/"

\* the toxicity_score members of an answer
ScoreMembers ==
    {JNumber(n) : n \in {Float(F_0_0), Float(F_0_5), Float(F_0_75), Float(F_0_85),
                         Float(F_0_95), Float(F_1_5), Minus(F_0_5)}}
        \cup {Absent, JNull, JTextScore}

\* the risk_level members of an answer
LevelMembers ==
    {JText(level) : level \in {"low", "medium", "high", "critical", "unknown"}}
        \cup {NoMember}

\* What a request of analyze_toxicity comes back with: status 200 and a
\* content that is JSON, status 200 and a content that is not, another
\* status, or an exception of the connection
Responses ==
    {[outcome |-> "status 200", valid_json |-> TRUE, json |-> j] :
        j \in {JObject(s, l) : s \in ScoreMembers, l \in LevelMembers} \cup {NotAnObject}}
        \cup {[outcome |-> o, valid_json |-> FALSE, json |-> NotAnObject] :
                 o \in {"status 200", "status 500", "exception"}}

\* ------------------------------------------------------------------------
\* MessageHandler1.handle_message and MultiLevelAnalyzer.analyze, step by step
\* ------------------------------------------------------------------------

\* no request of analyze_toxicity has come back
NoAnswer == [outcome |-> "", valid_json |-> FALSE, json |-> NotAnObject]

\* nothing has been given to HeuristicAnalyzer.analyze
NotScored == [called |-> FALSE, text |-> <<>>, score |-> F_0_0]

\* handle_message up to its return or to the request of analyze_toxicity:
\* a command is left alone; the levels of analyze run, and the message is
\* dealt with unless the deep analysis has to wait for the LLM
HandleMessage ==
    /\ handler_pc = "idle"
    /\ \E text \in AnalyzerTexts : \E score \in {analyze(text)} :
       \E chat \in Chats : \E can_delete \in BOOLEAN :
       \E lv \in {levels(banned_domains_mentioned, text, chat, score)} :
          /\ user_text' = text
          /\ chat_id' = chat
          /\ deletable' = can_delete
          /\ IF IsCommand(text)
             THEN /\ handler_pc' = "done"
                  /\ UNCHANGED <<heuristic_score, llm_requests, analysis, remediated>>
             ELSE IF lv.escalate
             THEN /\ handler_pc' = "awaiting_llm"
                  /\ heuristic_score' = score
                  /\ llm_requests' = llm_requests + 1
                  /\ UNCHANGED <<analysis, remediated>>
             ELSE /\ handler_pc' = "done"
                  /\ heuristic_score' = score
                  /\ analysis' = lv.result
                  /\ remediated' = remediation(lv.result, can_delete)
                  /\ UNCHANGED llm_requests
    /\ UNCHANGED <<llm_response, error, banned_domains_mentioned, scored>>
    /\ UNCHANGED <<modVars, spamVars, botVars, serviceVars>>

\* The request of analyze_toxicity comes back: _perform_deep_analysis and
\* handle_message run to their end
LLMAnswers ==
    /\ handler_pc = "awaiting_llm"
    /\ \E response \in Responses : \E llm_result \in {analyze_toxicity(response)} :
          /\ llm_response' = response
          /\ IF deep_analysis_error(llm_result) # ""
             THEN /\ error' = deep_analysis_error(llm_result)
                  /\ UNCHANGED <<analysis, remediated>>
             ELSE \E deep \in {_perform_deep_analysis(heuristic_score, llm_result)} :
                  /\ analysis' = deep
                  /\ remediated' = remediation(deep, deletable)
                  /\ UNCHANGED error
    /\ handler_pc' = "done"
    /\ UNCHANGED <<user_text, chat_id, deletable, heuristic_score, llm_requests>>
    /\ UNCHANGED <<banned_domains_mentioned, scored>>
    /\ UNCHANGED <<modVars, spamVars, botVars, serviceVars>>

\* handle_message has returned; the handler waits for the next message
HandlerReturns ==
    /\ handler_pc = "done"
    /\ handler_pc' = "idle"
    /\ user_text' = <<>>
    /\ chat_id' = ""
    /\ deletable' = FALSE
    /\ heuristic_score' = F_0_0
    /\ llm_requests' = 0
    /\ llm_response' = NoAnswer
    /\ analysis' = NoAnalysis
    /\ error' = ""
    /\ remediated' = NoRemediation
    /\ UNCHANGED <<banned_domains_mentioned, scored>>
    /\ UNCHANGED <<modVars, spamVars, botVars, serviceVars>>

\* A call of HeuristicAnalyzer.analyze
HeuristicAnalyze ==
    /\ ~scored.called
    /\ \E text \in HeuristicTexts :
          scored' = [called |-> TRUE, text |-> text, score |-> analyze(text)]
    /\ UNCHANGED <<handlerVars, banned_domains_mentioned>>
    /\ UNCHANGED <<modVars, spamVars, botVars, serviceVars>>

\* The caller has taken the score; the analyzer is free for the next call
HeuristicReturns ==
    /\ scored.called
    /\ scored' = NotScored
    /\ UNCHANGED <<handlerVars, banned_domains_mentioned>>
    /\ UNCHANGED <<modVars, spamVars, botVars, serviceVars>>

\* ------------------------------------------------------------------------
\* ContextualMentionTracker: the calls
\* ------------------------------------------------------------------------

\* How many calls of track_mention the model follows
MaxMentions == 2

\* Domains: a stem of four characters, the same with a capital, and a stem
\* of three characters
d_kino == <<"k", "i", "n", "o", ".", "t", "v">>
d_Kino == <<"K", "i", "n", "o", ".", "t", "v">>
d_abc == <<"a", "b", "c", ".", "r", "u">>
Domains == {d_kino, d_Kino, d_abc}

\* 'тот сайт'
tot_sajt == <<"_t", "_o", "_t", " ", "_s", "_a", "_j", "_t">>

\* The texts given to check_contextual_reference: the phrase with each stem,
\* the phrase alone, a stem alone, and the two words of the phrase on two
\* lines followed by a stem
ReferenceTexts ==
    {tot_sajt \o <<" ">> \o DomainName(d) : d \in Domains}
        \cup {tot_sajt, DomainName(d_kino),
              <<"_t", "_o", "_t", "\n", "_s", "_a", "_j", "_t", " ">> \o DomainName(d_kino)}

\* No call of check_contextual_reference has been made
NoReference == [called |-> FALSE, text |-> <<>>, chat |-> "", mentioned |-> <<>>,
                violations |-> {}]

\* ContextualMentionTracker.track_mention; banned_domains_mentioned and
\* mention_history are defaultdicts, so the entry of the chat is made when it
\* is missing. An entry of the history is given by its domain, its user_id
\* and its timestamp.
TrackMention ==
    /\ tracked < MaxMentions
    /\ tracked' = tracked + 1
    /\ \E chat \in Chats, domain \in Domains, user_id \in Users :
          /\ banned_domains_mentioned' =
                setitem(banned_domains_mentioned, chat,
                        get(banned_domains_mentioned, chat, {}) \cup {domain})
          /\ mention_history' =
                setitem(mention_history, chat,
                        deque_append(get(mention_history, chat, <<>>),
                                     [domain |-> domain, user_id |-> user_id,
                                      timestamp |-> clock]))
    /\ UNCHANGED <<handlerVars, scored, checked_reference, clock, cleanup_at>>
    /\ UNCHANGED <<modVars, spamVars, botVars, alternativesVars, repeatVars, loaderVars, alias_checked, lruVars>>

\* A call of check_contextual_reference; mentioned keeps the domains the
\* tracker held when the call was made
CheckReference ==
    /\ \E text \in ReferenceTexts, chat \in Chats :
          checked_reference' =
              [called |-> TRUE, text |-> text, chat |-> chat,
               mentioned |-> banned_domains_mentioned,
               violations |-> check_contextual_reference(banned_domains_mentioned,
                                                         text, chat)]
    /\ UNCHANGED <<analyzerVars, mention_history, clock, cleanup_at, tracked>>
    /\ UNCHANGED <<modVars, spamVars, botVars, alternativesVars, repeatVars, loaderVars, alias_checked, lruVars>>

\* cleanup_hours, the default of ContextualMentionTracker.__init__
cleanup_hours == 24

\* How far the runs let the clock go, and by how much at a time
MaxHours == 36
HoursPerTick == 12

\* Time passes
Tick ==
    /\ clock + HoursPerTick <= MaxHours
    /\ clock' = clock + HoursPerTick
    /\ UNCHANGED <<analyzerVars, mention_history, checked_reference, cleanup_at, tracked>>
    /\ UNCHANGED <<modVars, spamVars, botVars, alternativesVars, repeatVars, loaderVars, alias_checked, lruVars>>

\* The mentions of a deque that the cleanup drops none of
kept_all_mentions(q, cutoff) == q

\* [m for m in q if m['timestamp'] > cutoff]
kept_mentions(q, cutoff) == SelectSeq(q, LAMBDA m : m.timestamp > cutoff)

\* deque(items, maxlen=max_history): the last max_history items
deque_of(items) ==
    IF Len(items) > max_history
    THEN SubSeq(items, Len(items) - max_history + 1, Len(items))
    ELSE items

\* ContextualMentionTracker.cleanup_old_mentions
CleanupOldMentions ==
    /\ cleanup_at # clock
    /\ cleanup_at' = clock
    /\ mention_history' =
          [chat \in DOMAIN mention_history |->
              deque_of(kept_mentions(mention_history[chat], clock - cleanup_hours))]
    /\ UNCHANGED <<analyzerVars, checked_reference, clock, tracked>>
    /\ UNCHANGED <<modVars, spamVars, botVars, alternativesVars, repeatVars, loaderVars, alias_checked, lruVars>>

\* ------------------------------------------------------------------------
\* analyze_message called twice on one agent
\* ------------------------------------------------------------------------

\* Where the loop `for name in self.inoagents` of a control state that has
\* returned found its name; 0 for a control state that names no entry
RankIn(order, c) ==
    IF c.pc = "done" /\ c.result.reason.names # <<>>
    THEN IndexOf(order, c.result.reason.names[1])
    ELSE 0

\* The control state the call is in, of those a pass allows, when the set
\* self.inoagents is iterated in the given order: the loops return at the
\* first entry that matches
pick(C, order) ==
    CHOOSE c \in C : \A d \in C \ {c} : RankIn(order, c) < RankIn(order, d)

\* analyze_message from the control states C to its return, the LLM giving
\* the answers of the script
RECURSIVE run(_, _, _, _)
run(C, f, script, order) ==
    IF pick(C, order).pc = "done" THEN pick(C, order).result
    ELSE IF pick(C, order).pc = "alias_small"
    THEN run(on_alias_small(f, pick(C, order).tokIdx, script.alias_small,
                            pick(C, order).stages, pick(C, order).llmCalls),
             f, script, order)
    ELSE IF pick(C, order).pc = "alias"
    THEN run(on_alias(f, script.alias, pick(C, order).stages, pick(C, order).llmCalls),
             f, script, order)
    ELSE run(on_classify(f, script.classify, pick(C, order).stages,
                         pick(C, order).llmCalls),
             f, script, order)

\* The iteration order of self.inoagents after a call that re-inserted the
\* entries
inoagents_reinserted(order) == [i \in DOMAIN order |-> order[Len(order) + 1 - i]]

\* The iteration order of self.inoagents after a call of analyze_message:
\* the call assigns no attribute of the agent and adds nothing to the set
inoagents_after_call(order) == order

\* 'иванов иван петров петр': the first two tokens of both registry entries
t_two_names == fio_ivanov \o <<" ">> \o SubSeq(fio_petrov, 1, 11)

\* The messages called twice
RepeatTexts == {Text(m) : m \in SeqsUpTo(Vocabulary, MaxLen - 1)} \cup {t_two_names}

\* The answers the LLM gives to the requests of a call, one per kind of
\* request
Scripts ==
    [alias_small : {ReturnsNone, Response("text", {fio_ivanov}, {}, "")},
     alias : {Response("text", {}, {}, ""), Response("text", {fio_ivanov}, {}, "")},
     classify : {Raises, Response("text", {}, {"C"}, "reason given")}]

NotRepeated == [calls |-> 0, text |-> <<>>, script |-> <<>>, results |-> <<>>]

\* analyze_message(text) with an LLM that answers as the script says
FirstCall ==
    /\ repeated.calls = 0
    /\ \E text \in RepeatTexts, script \in Scripts :
          repeated' = [calls |-> 1, text |-> text, script |-> script,
                       results |-> <<run(analyze_message(text, Frame(text)), Frame(text),
                                         script, registry_order)>>]
    /\ registry_order' = inoagents_after_call(registry_order)
    /\ UNCHANGED <<trackerVars, alternativesVars, loaderVars, alias_checked, lruVars>>
    /\ UNCHANGED <<modVars, spamVars, botVars, analyzerVars>>

\* The same call once more
SecondCall ==
    /\ repeated.calls = 1
    /\ repeated' = [repeated EXCEPT
                       !.calls = 2,
                       !.results = Append(@, run(analyze_message(repeated.text,
                                                                 Frame(repeated.text)),
                                                 Frame(repeated.text), repeated.script,
                                                 registry_order))]
    /\ registry_order' = inoagents_after_call(registry_order)
    /\ UNCHANGED <<trackerVars, alternativesVars, loaderVars, alias_checked, lruVars>>
    /\ UNCHANGED <<modVars, spamVars, botVars, analyzerVars>>

\* The caller goes on to another message
NextMessage ==
    /\ repeated.calls = 2
    /\ repeated' = NotRepeated
    /\ UNCHANGED <<registry_order, trackerVars, alternativesVars, loaderVars, alias_checked, lruVars>>
    /\ UNCHANGED <<modVars, spamVars, botVars, analyzerVars>>

\* ------------------------------------------------------------------------
\* The local passes of analyze_message on a loaded alias mapping
\* ------------------------------------------------------------------------

\* 'soloma', 'солома', 'miro', 'мирта', 'мирь', 'миро', 'мир'
w_soloma == <<"s", "o", "l", "o", "m", "a">>
w_soloma_ru == <<"_s", "_o", "_l", "_o", "_m", "_a">>
w_miro_lat == <<"m", "i", "r", "o">>
w_mirta == <<"_m", "_i", "_r", "_t", "_a">>
w_mir_soft == <<"_m", "_i", "_r", "_soft">>
w_miro == <<"_m", "_i", "_r", "_o">>
w_mir == <<"_m", "_i", "_r">>

\* The mappings _load_inoagents can leave in self.pseudonyms, each alias
\* followed by the Cyrillic form derived from it: the one of the registry
\* file, the same after a line that gives 'иванов иван' the alias 'Soloma',
\* and the one of a file that gives 'петров петр ильич' the alias 'Miro'
AliasMaps ==
    { pseudonyms,
      << [alias |-> w_soloma, fio |-> fio_ivanov],
         [alias |-> w_soloma_ru, fio |-> fio_ivanov] >> \o pseudonyms,
      << [alias |-> w_miro_lat, fio |-> fio_petrov],
         [alias |-> w_miro, fio |-> fio_petrov] >> }

\* The words of the messages given to the passes
AliasWords ==
    {w_mirona, w_miron, w_soloma, w_mirta, w_mir_soft, w_miro, w_mir, w_ivan,
     w_ivanov, w_kto}

\* The messages: one word, or two with a space between
AliasTexts ==
    AliasWords \cup {a \o <<" ">> \o b : a, b \in AliasWords}

\* Lines 148-227 of analyze_message on the mapping aliases: the pass that
\* returned (guard, direct, alias, or none of them) and the full name of the
\* alias pass
local_match(aliases, text) ==
    LET f == Frame(text)
    IN  IF Len(f.norm_tokens) = 1 /\ ShortOrListed(f.norm_tokens[1], token_blacklist)
        THEN [stage |-> "guard", fio |-> NoName]
        ELSE IF DirectMatches(text, f) # {}
        THEN [stage |-> "direct", fio |-> NoName]
        ELSE IF alias_pass(aliases, f.norm_tokens, 1) # NoName
        THEN [stage |-> "alias", fio |-> alias_pass(aliases, f.norm_tokens, 1)]
        ELSE [stage |-> "none", fio |-> NoName]

NotChecked == [called |-> FALSE, aliases |-> <<>>, norm_tokens |-> <<>>,
               stage |-> "", fio |-> NoName]

\* analyze_message runs its local passes on a message
LocalPasses ==
    /\ ~alias_checked.called
    /\ \E aliases \in AliasMaps, text \in AliasTexts :
          \E m \in {local_match(aliases, text)} :
              alias_checked' = [called |-> TRUE, aliases |-> aliases,
                                norm_tokens |-> Frame(text).norm_tokens,
                                stage |-> m.stage, fio |-> m.fio]
    /\ UNCHANGED <<trackerVars, alternativesVars, repeatVars, loaderVars, lruVars>>
    /\ UNCHANGED <<modVars, spamVars, botVars, analyzerVars>>

\* The call goes on or returns; the agent takes the next message
LocalPassesEnd ==
    /\ alias_checked.called
    /\ alias_checked' = NotChecked
    /\ UNCHANGED <<trackerVars, alternativesVars, repeatVars, loaderVars, lruVars>>
    /\ UNCHANGED <<modVars, spamVars, botVars, analyzerVars>>

\* ------------------------------------------------------------------------
\* ModeratorAgent._load_inoagents
\* ------------------------------------------------------------------------

\* ModeratorAgent._lat_to_ru_approx: the table of the function; the digits
\* stand for themselves and a character that is not in the table is dropped
lat_to_ru_table ==
    [c \in LatLower |->
        CASE c = "a" -> <<"_a">>
          [] c = "b" -> <<"_b">>
          [] c = "c" -> <<"_c">>
          [] c = "d" -> <<"_d">>
          [] c = "e" -> <<"_e">>
          [] c = "f" -> <<"_f">>
          [] c = "g" -> <<"_g">>
          [] c = "h" -> <<"_h">>
          [] c = "i" -> <<"_i">>
          [] c = "j" -> <<"_j">>
          [] c = "k" -> <<"_k">>
          [] c = "l" -> <<"_l">>
          [] c = "m" -> <<"_m">>
          [] c = "n" -> <<"_n">>
          [] c = "o" -> <<"_o">>
          [] c = "p" -> <<"_p">>
          [] c = "q" -> <<"_k">>
          [] c = "r" -> <<"_r">>
          [] c = "s" -> <<"_s">>
          [] c = "t" -> <<"_t">>
          [] c = "u" -> <<"_u">>
          [] c = "v" -> <<"_v">>
          [] c = "w" -> <<"_v">>
          [] c = "x" -> <<"_k", "_s">>
          [] c = "y" -> <<"_i">>
          [] c = "z" -> <<"_z">>]

\* ''.join(table.get(ch, '') for ch in s.lower())
RECURSIVE lat_to_ru_chars(_)
lat_to_ru_chars(s) ==
    IF s = <<>> THEN <<>>
    ELSE (IF LowerChar(Head(s)) \in LatLower THEN lat_to_ru_table[LowerChar(Head(s))]
          ELSE IF Head(s) \in Digits THEN <<Head(s)>>
          ELSE <<>>) \o lat_to_ru_chars(Tail(s))

\* 'кс'
ks == <<"_k", "_s">>

\* How many times t stands in s from position i on, one copy after the other
RECURSIVE Copies(_, _, _)
Copies(s, t, i) == IF OccursAt(s, t, i) THEN 1 + Copies(s, t, i + Len(t)) ELSE 0

\* re.sub(r'(кс){2,}', 'кс', s)
RECURSIVE collapse_ks(_)
collapse_ks(s) ==
    IF s = <<>> THEN <<>>
    ELSE IF Copies(s, ks, 1) >= 2
    THEN ks \o collapse_ks(Slice(s, 2 * Copies(s, ks, 1) + 1, Len(s)))
    ELSE <<Head(s)>> \o collapse_ks(Tail(s))

\* re.sub(r'(.)\1{2,}', r'\1', s): a run of three or more of one character,
\* the line break excepted, becomes one
RECURSIVE collapse_repeats(_)
collapse_repeats(s) ==
    IF s = <<>> THEN <<>>
    ELSE IF Head(s) # "\n" /\ Copies(s, <<Head(s)>>, 1) >= 3
    THEN <<Head(s)>> \o collapse_repeats(Slice(s, Copies(s, <<Head(s)>>, 1) + 1, Len(s)))
    ELSE <<Head(s)>> \o collapse_repeats(Tail(s))

\* ModeratorAgent._lat_to_ru_approx
_lat_to_ru_approx(s) == collapse_repeats(collapse_ks(lat_to_ru_chars(s)))

\* _load_inoagents: pseudo_blacklist
pseudo_blacklist ==
    { <<"_p", "_r", "_o", "_e", "_k", "_t">>,
      <<"_r", "_e", "_s", "_u", "_r", "_s">>,
      <<"_k", "_o", "_m", "_a", "_n", "_d", "_a">>,
      <<"_i", "_z", "_d", "_a", "_n", "_i", "_e">>,
      <<"_g", "_a", "_z", "_e", "_t", "_a">>,
      <<"_t", "_e", "_l", "_e", "_g", "_r", "_a", "_m">>,
      <<"_k", "_a", "_n", "_a", "_l">>,
      <<"_o", "_r", "_g", "_a", "_n", "_i", "_z", "_a", "_c", "_i", "_ya">>,
      <<"_p", "_l", "_a", "_t", "_f", "_o", "_r", "_m", "_a">>,
      <<"_f", "_o", "_n", "_d">>,
      <<"_a", "_g", "_e", "_n", "_t">>,
      <<"_m", "_a", "_t">>,
      <<"_m", "_e", "_d", "_i", "_a">>,
      <<"_r", "_a", "_d", "_i", "_o">>,
      <<"_s", "_a", "_j", "_t">>,
      <<"_n", "_o", "_v", "_o", "_s", "_t", "_i">>,
      <<"_o", "_t", "_k", "_r", "_y", "_t", "_y", "_h">>,
      <<"_v", "_a", "_zh", "_n", "_y", "_h">>,
      <<"_i", "_n", "_o", "_a", "_g", "_e", "_n", "_t">> }

\* A line of the registry file, by what the patterns of _load_inoagents find
\* in it: fio_matches, the full names in the order they stand, and pseudo, the
\* text taken for the pseudonym (empty when none is found)
RegistryLine(fio_matches, pseudo) == [fio_matches |-> fio_matches, pseudo |-> pseudo]

\* 'Иванов Иван', 'Сидоров Сидор', 'Петров Петр Ильич'
n_Ivanov == w_Ivanov \o <<" ", "^i", "_v", "_a", "_n">>
n_Sidorov ==
    <<"^s", "_i", "_d", "_o", "_r", "_o", "_v", " ", "^s", "_i", "_d", "_o", "_r">>
n_Petrov ==
    <<"^p", "_e", "_t", "_r", "_o", "_v", " ", "^p", "_e", "_t", "_r", " ",
      "^i", "_l", "_soft", "_i", "_ch">>
\* 'Miron', 'xXx', 'Fond', 'DJ Смэш'
p_Miron == <<"M", "i", "r", "o", "n">>
p_xXx == <<"x", "X", "x">>
p_Fond == <<"F", "o", "n", "d">>
p_DJ == <<"D", "J", " ", "^s", "_m", "_eh", "_sh">>

\* The lines a registry file is made of
RegistryLines ==
    { RegistryLine(<<n_Ivanov>>, <<>>),
      RegistryLine(<<n_Petrov>>, p_Miron),
      RegistryLine(<<n_Ivanov>>, p_xXx),
      RegistryLine(<<n_Petrov, n_Ivanov>>, p_Fond),
      RegistryLine(<<n_Ivanov>>, w_mat),
      RegistryLine(<<>>, p_Miron),
      RegistryLine(<<n_Sidorov>>, p_Miron),
      RegistryLine(<<n_Petrov>>, p_DJ) }

\* How many lines the file holds at most
MaxLines == 3

\* The aliases a line adds to self.pseudonyms (lines 120-133): the normalized
\* pseudonym unless it is short or deny-listed, and the form
\* _lat_to_ru_approx derives from one that holds a Latin letter, unless that
\* form is empty
line_aliases(ln) ==
    IF ln.pseudo = <<>> \/ ln.fio_matches = <<>> THEN {}
    ELSE LET p_norm == _normalize(ln.pseudo)
             alt == _lat_to_ru_approx(p_norm)
         IN  IF Len(p_norm) < 3 \/ p_norm \in pseudo_blacklist THEN {}
             ELSE {p_norm} \cup
                  (IF (\E i \in DOMAIN p_norm : p_norm[i] \in LatLower \cup LatUpper)
                        /\ alt # <<>>
                   THEN {alt} ELSE {})

\* The body of the loop over the lines: every full name of the line enters
\* self.inoagents, every alias of the line maps to the first full name
ReadLine ==
    /\ lines_read < MaxLines
    /\ \E ln \in RegistryLines :
          /\ self_inoagents' =
                self_inoagents \cup {_normalize(ln.fio_matches[i]) : i \in DOMAIN ln.fio_matches}
          /\ self_pseudonyms' =
                [a \in DOMAIN self_pseudonyms \cup line_aliases(ln) |->
                    IF a \in line_aliases(ln) THEN _normalize(ln.fio_matches[1])
                    ELSE self_pseudonyms[a]]
    /\ lines_read' = lines_read + 1
    /\ UNCHANGED <<trackerVars, alternativesVars, repeatVars, alias_checked, lruVars>>
    /\ UNCHANGED <<modVars, spamVars, botVars, analyzerVars>>

\* ------------------------------------------------------------------------
\* LRUCache (agents/agent_alternatives.py)
\* ------------------------------------------------------------------------

\* LRUCache.cache is an OrderedDict: the sequence of its entries, the one
\* touched last at the end

\* key in self.cache
has_key(od, key) == \E i \in DOMAIN od : od[i].key = key

\* self.cache[key] for a key that is there
value_of(od, key) == od[CHOOSE i \in DOMAIN od : od[i].key = key].value

\* The entries without the one of the key
without_key(od, key) == SelectSeq(od, LAMBDA e : e.key # key)

\* self.cache.move_to_end(key)
move_to_end(od, key) ==
    Append(without_key(od, key), [key |-> key, value |-> value_of(od, key)])

\* LRUCache.get: the cache after the call
cache_after_get(od, key) == IF has_key(od, key) THEN move_to_end(od, key) ELSE od

\* a put that writes the value of a key that is there where the key stands
cache_put_in_place(od, key, value, maxsize) ==
    LET put_end == IF has_key(od, key)
                   THEN [i \in DOMAIN od |->
                            IF od[i].key = key THEN [key |-> key, value |-> value]
                            ELSE od[i]]
                   ELSE Append(od, [key |-> key, value |-> value])
    IN  IF Len(put_end) > maxsize THEN Tail(put_end) ELSE put_end

\* LRUCache.put: the cache after the call
cache_put(od, key, value, maxsize) ==
    LET put_end == Append(without_key(od, key), [key |-> key, value |-> value])
    IN  IF Len(put_end) > maxsize THEN Tail(put_end) ELSE put_end

\* EnhancedAlternativesAgent.__init__: cache_size
cache_size == 1000

\* LRUCache.get: what the call returns
cache_get(od, key) == IF has_key(od, key) THEN value_of(od, key) ELSE "None"

\* The LRUCache of the runs: its maxsize, the keys and the values it is
\* given, and how many calls a run makes
lru_maxsize == 2
MaxCalls == 5
CacheKeys == {"a", "b", "c"}
CacheValues == {"v1", "v2"}

\* A call of get or put: its number, the cache before it and what it returned
CacheCall(n, op, key, value, before, returned) ==
    [n |-> n, op |-> op, key |-> key, value |-> value, before |-> before,
     returned |-> returned]
NoCacheCall == CacheCall(0, "", "", "", <<>>, "None")

\* LRUCache.get(key)
CacheGet ==
    /\ lru_call.n < MaxCalls
    /\ \E key \in CacheKeys :
          /\ lru_call' = CacheCall(lru_call.n + 1, "get", key, "", lru, cache_get(lru, key))
          /\ lru' = cache_after_get(lru, key)
          /\ touched_at' = IF has_key(lru, key)
                           THEN [touched_at EXCEPT ![key] = lru_call.n + 1]
                           ELSE touched_at
    /\ UNCHANGED <<modVars, spamVars, botVars, analyzerVars>>
    /\ UNCHANGED <<trackerVars, alternativesVars, repeatVars, loaderVars, alias_checked>>

\* LRUCache.put(key, value)
CachePut ==
    /\ lru_call.n < MaxCalls
    /\ \E key \in CacheKeys, value \in CacheValues :
          /\ lru_call' = CacheCall(lru_call.n + 1, "put", key, value, lru, "None")
          /\ lru' = cache_put(lru, key, value, lru_maxsize)
          /\ touched_at' = [touched_at EXCEPT ![key] = lru_call.n + 1]
    /\ UNCHANGED <<modVars, spamVars, botVars, analyzerVars>>
    /\ UNCHANGED <<trackerVars, alternativesVars, repeatVars, loaderVars, alias_checked>>

\* ------------------------------------------------------------------------
\* EnhancedAlternativesAgent (agents/agent_alternatives.py)
\* ------------------------------------------------------------------------

\* A URL is its scheme ("" when it has none), the labels of its host and the
\* rest
l_www == <<"w", "w", "w">>
l_site == <<"s", "i", "t", "e">>
l_Site == <<"S", "i", "t", "e">>
l_video == <<"v", "i", "d", "e", "o">>
l_ru == <<"r", "u">>
l_org == <<"o", "r", "g">>
l_co == <<"c", "o">>
l_com == <<"c", "o", "m">>
l_au == <<"a", "u">>
l_ac == <<"a", "c">>
l_uk == <<"u", "k">>

\* 'https://www.Site.ru/x', 'site.ru/y', 'video.org'
url_site_x == [scheme |-> "https://", netloc |-> <<l_www, l_Site, l_ru>>, path |-> "/x"]
url_site_y == [scheme |-> "", netloc |-> <<l_site, l_ru>>, path |-> "/y"]
url_video == [scheme |-> "", netloc |-> <<l_video, l_org>>, path |-> ""]
Urls == {url_site_x, url_site_y, url_video}

\* _extract_domain: special_tlds
special_tlds == {<<l_co, l_uk>>, <<l_com, l_au>>, <<l_org, l_uk>>, <<l_ac, l_uk>>}

\* The last n labels of a host
LastLabels(parts, n) == SubSeq(parts, Len(parts) - n + 1, Len(parts))

\* domain.endswith(tld) for the host of the labels parts and a tld of two
\* labels: the last label is the second of the tld and the one before it ends
\* with the first
EndsWithTld(parts, tld) ==
    /\ parts[Len(parts)] = tld[2]
    /\ \E k \in 1..Len(parts[Len(parts) - 1]) :
          SubSeq(parts[Len(parts) - 1], k, Len(parts[Len(parts) - 1])) = tld[1]

\* EnhancedAlternativesAgent._extract_domain for a URL that urlparse takes
_extract_domain(u) ==
    LET lowered == SubSeq([i \in DOMAIN u.netloc |-> Lower(u.netloc[i])], 1, Len(u.netloc))
        parts == IF Len(lowered) > 1 /\ lowered[1] = l_www THEN Tail(lowered) ELSE lowered
    IN  IF Len(parts) > 2
        THEN IF \E tld \in special_tlds : EndsWithTld(parts, tld)
             THEN LastLabels(parts, 3)
             ELSE LastLabels(parts, 2)
        ELSE parts

\* An AlternativeResult: how it was made (parsed from the answer of the LLM,
\* taken from the fallback base, or made for an error) and original_domain
AlternativeResult(kind, original) == [kind |-> kind, original_domain |-> original]
NoAlternatives == AlternativeResult("none", <<>>)

\* What the request of find_alternatives to the LLM comes back with: the
\* answer, an exception of generate, or the timeout of asyncio.wait_for
LLMOutcomes == {"answer", "error", "timeout"}

\* find_alternatives after the await of lines 597-600: the result returned
found_alternatives(u, llm) ==
    IF llm = "answer"
    THEN AlternativeResult("parsed", _extract_domain(u))
    ELSE AlternativeResult("fallback", _extract_domain(u))

\* a find_alternatives that stores the fallback result as well
cache_after_find_stores_all(od, u, llm) ==
    cache_put(od, _extract_domain(u), found_alternatives(u, llm), cache_size)

\* find_alternatives after the await: the cache it leaves
cache_after_find(od, u, llm) ==
    IF llm = "answer"
    THEN cache_put(od, _extract_domain(u), found_alternatives(u, llm), cache_size)
    ELSE od

\* asyncio.Semaphore.locked
locked_never(value) == FALSE
locked(value) == value = 0

\* A process_url task: waiting for the semaphore, in flight inside
\* find_alternatives with the semaphore held, or done
WaitingTask(u) == [pc |-> "waiting", url |-> u, llm |-> "none", result |-> NoAlternatives]

\* for url, result in batch_results: results[url] = result, with only the
\* results parsed from an answer
collect_parsed(batch) ==
    LET last_of(u) == CHOOSE i \in DOMAIN batch :
                       batch[i].url = u /\ \A k \in DOMAIN batch : batch[k].url = u => k <= i
    IN  [u \in {batch[i].url : i \in {k \in DOMAIN batch : batch[k].result.kind = "parsed"}}
            |-> batch[last_of(u)].result]

\* for url, result in batch_results: results[url] = result
collect(batch) ==
    LET last_of(u) == CHOOSE i \in DOMAIN batch :
                       batch[i].url = u /\ \A k \in DOMAIN batch : batch[k].url = u => k <= i
    IN  [u \in {batch[i].url : i \in DOMAIN batch} |-> batch[last_of(u)].result]

\* How many urls a batch holds at most
MaxUrls == 3

\* The values of max_concurrent
ConcurrencyLimits == {1, 2}

\* batch_find_alternatives is called: the semaphore and the tasks are made
StartBatch ==
    /\ batch_pc = "idle"
    /\ \E urls \in SeqsUpTo(Urls, MaxUrls), limit \in ConcurrencyLimits :
          /\ batch_urls' = urls
          /\ max_concurrent' = limit
          /\ semaphore' = limit
          /\ tasks' = SubSeq([i \in DOMAIN urls |-> WaitingTask(urls[i])], 1, Len(urls))
    /\ batch_pc' = "gathering"
    /\ results' = <<>>
    /\ UNCHANGED <<cache, trackerVars, repeatVars, loaderVars, alias_checked, lruVars>>
    /\ UNCHANGED <<modVars, spamVars, botVars, analyzerVars>>

\* A task takes the semaphore and runs find_alternatives up to its await: on
\* a cache hit the call returns at once and the semaphore is released, else
\* the request to the LLM is in flight
EnterSemaphore ==
    /\ batch_pc = "gathering"
    /\ ~locked(semaphore)
    /\ \E i \in DOMAIN tasks :
          /\ tasks[i].pc = "waiting"
          /\ \E key \in {_extract_domain(tasks[i].url)} :
                IF has_key(cache, key)
                THEN /\ tasks' = [tasks EXCEPT ![i].pc = "done", ![i].llm = "cache_hit",
                                               ![i].result = value_of(cache, key)]
                     /\ cache' = cache_after_get(cache, key)
                     /\ UNCHANGED semaphore
                ELSE /\ tasks' = [tasks EXCEPT ![i].pc = "in_flight"]
                     /\ semaphore' = semaphore - 1
                     /\ UNCHANGED cache
    /\ UNCHANGED <<batch_pc, batch_urls, max_concurrent, results, trackerVars, repeatVars, loaderVars, alias_checked, lruVars>>
    /\ UNCHANGED <<modVars, spamVars, botVars, analyzerVars>>

\* The request of a task in flight ends as llm says: find_alternatives
\* returns its result, process_url returns and the semaphore is released
LookupEnds(llm) ==
    /\ batch_pc = "gathering"
    /\ \E i \in DOMAIN tasks :
          /\ tasks[i].pc = "in_flight"
          /\ tasks' = [tasks EXCEPT ![i].pc = "done", ![i].llm = llm,
                                    ![i].result = found_alternatives(tasks[i].url, llm)]
          /\ cache' = cache_after_find(cache, tasks[i].url, llm)
    /\ semaphore' = semaphore + 1
    /\ UNCHANGED <<batch_pc, batch_urls, max_concurrent, results, trackerVars, repeatVars, loaderVars, alias_checked, lruVars>>
    /\ UNCHANGED <<modVars, spamVars, botVars, analyzerVars>>

\* The LLM endpoint answers the request or fails it
LLMEnds == LookupEnds("answer") \/ LookupEnds("error")

\* asyncio.wait_for ends the request after self.timeout seconds
LookupTimesOut == LookupEnds("timeout")

\* asyncio.gather has every result: the dictionary is made and returned
Gather ==
    /\ batch_pc = "gathering"
    /\ \A i \in DOMAIN tasks : tasks[i].pc = "done"
    /\ results' = collect(tasks)
    /\ batch_pc' = "returned"
    /\ UNCHANGED <<batch_urls, max_concurrent, semaphore, tasks, cache, trackerVars, repeatVars, loaderVars, alias_checked, lruVars>>
    /\ UNCHANGED <<modVars, spamVars, botVars, analyzerVars>>

\* ------------------------------------------------------------------------
\* Specifications
\* ------------------------------------------------------------------------

InitModerator ==
    /\ pc = "idle"
    /\ message = <<>>
    /\ frame = Frame(<<>>)
    /\ tokIdx = 0
    /\ llmCalls = 0
    /\ stages = {}
    /\ result = NoResult
    /\ cls_response = NoResponse
    /\ small_named = {}
    /\ raised = ""

\* SpamDetectorAgent.__init__
InitSpamDetector ==
    /\ history = <<>>
    /\ spam_result = NoCheck
    /\ adds = 0

\* ModerationBot.__init__ on an empty storage
InitBot ==
    /\ bans = {}
    /\ violations = [u \in Users |-> 0]
    /\ stored = [u \in Users |-> <<>>]
    /\ sentIn = [c \in Chats |-> {}]
    /\ last = NotHandled
    /\ handled = 0
    /\ running = [k \in Callers |-> NotCalled]
    /\ unban_cmd = NoUnban

\* MessageHandler1.__init__: no message is being handled, and the tracker of
\* MultiLevelAnalyzer.__init__ holds no domain
InitAnalyzer ==
    /\ handler_pc = "idle"
    /\ user_text = <<>>
    /\ chat_id = ""
    /\ deletable = FALSE
    /\ heuristic_score = F_0_0
    /\ llm_requests = 0
    /\ llm_response = NoAnswer
    /\ analysis = NoAnalysis
    /\ error = ""
    /\ remediated = NoRemediation
    /\ banned_domains_mentioned = <<>>
    /\ scored = NotScored

\* ContextualMentionTracker.__init__: no chat has a history
InitTracker ==
    /\ mention_history = <<>>
    /\ checked_reference = NoReference
    /\ clock = 0
    /\ cleanup_at = -1
    /\ tracked = 0

\* EnhancedAlternativesAgent.__init__: the cache is empty and no batch runs
InitAlternatives ==
    /\ batch_pc = "idle"
    /\ batch_urls = <<>>
    /\ max_concurrent = 0
    /\ semaphore = 0
    /\ tasks = <<>>
    /\ cache = <<>>
    /\ results = <<>>

\* ModeratorAgent.__init__: the registry is loaded into a set, whose
\* iteration order the hashes of the names decide
InitRepeat ==
    /\ registry_order \in {o \in [1..Cardinality(inoagents) -> inoagents] :
                               Range(o) = inoagents}
    /\ repeated = NotRepeated

\* ModeratorAgent.__init__ before the call of _load_inoagents
InitLoader ==
    /\ self_inoagents = {}
    /\ self_pseudonyms = <<>>
    /\ lines_read = 0

\* LRUCache.__init__
InitCache ==
    /\ lru = <<>>
    /\ lru_call = NoCacheCall
    /\ touched_at = [key \in CacheKeys |-> 0]

Init ==
    /\ InitModerator
    /\ InitSpamDetector
    /\ InitBot
    /\ InitAnalyzer
    /\ InitTracker
    /\ InitAlternatives
    /\ InitRepeat
    /\ InitLoader
    /\ alias_checked = NotChecked
    /\ InitCache

NextModerator ==
    \/ Start
    \/ AliasSmallResponse
    \/ AliasResponse
    \/ ClassifyResponse
    \/ Return

NextSpam ==
    \/ AddMessage
    \/ CheckSpam

NextBot == ProcessMessage

SpecModerator == Init /\ [][NextModerator]_vars
SpecSpam == Init /\ [][NextSpam]_vars
SpecBot == Init /\ [][NextBot]_vars

NextAnalyzer ==
    \/ HandleMessage
    \/ LLMAnswers
    \/ HandlerReturns

NextHeuristic ==
    \/ HeuristicAnalyze
    \/ HeuristicReturns

NextTracker ==
    \/ TrackMention
    \/ CheckReference

SpecAnalyzer == Init /\ [][NextAnalyzer]_vars
SpecTracker == Init /\ [][NextTracker]_vars

NextCleanup ==
    \/ TrackMention
    \/ Tick
    \/ CleanupOldMentions

SpecCleanup == Init /\ [][NextCleanup]_vars

NextCache == CacheGet \/ CachePut

SpecCache == Init /\ [][NextCache]_vars

NextRepeat ==
    \/ FirstCall
    \/ SecondCall
    \/ NextMessage

SpecRepeat == Init /\ [][NextRepeat]_vars

NextLoader == ReadLine

SpecLoader == Init /\ [][NextLoader]_vars

NextBans ==
    \/ ProcessNextMessage
    \/ UnbanCommand

SpecBans == Init /\ [][NextBans]_vars

NextConcurrent ==
    \E k \in Callers : StartCall(k) \/ AnalysisEnds(k) \/ DeleteEnds(k)

SpecConcurrent == Init /\ [][NextConcurrent]_vars

NextAlias ==
    \/ LocalPasses
    \/ LocalPassesEnd

SpecAlias == Init /\ [][NextAlias]_vars

NextBatch ==
    \/ StartBatch
    \/ EnterSemaphore
    \/ LLMEnds
    \/ LookupTimesOut
    \/ Gather

SpecBatch == Init /\ [][NextBatch]_vars

\* The event loop runs every task that can go on, and asyncio.wait_for ends a
\* request that has had no answer within the timeout
SpecBatchFair ==
    /\ SpecBatch
    /\ WF_vars(EnterSemaphore)
    /\ WF_vars(LookupTimesOut)
    /\ WF_vars(Gather)
SpecHeuristic == Init /\ [][NextHeuristic]_vars

\* The event loop runs every coroutine that can go on, so a call that has its
\* result returns. That a message arrives and that the LLM endpoint answers
\* a request are not steps of the program: nothing makes them happen.
SpecModeratorFair == SpecModerator /\ WF_vars(Return)
SpecAnalyzerFair == SpecAnalyzer /\ WF_vars(HandlerReturns)

\* ------------------------------------------------------------------------
\* Properties of ModeratorAgent.analyze_message
\* ------------------------------------------------------------------------

\* The call has returned
Returned == pc = "done"

\* t0 and t1 are consecutive tokens of the message, in that order
AdjacentTokens(t0, t1) ==
    \E i \in 1..(Len(frame.norm_tokens) - 1) :
        frame.norm_tokens[i] = t0 /\ frame.norm_tokens[i + 1] = t1

\* The result is CATEGORY_C with a reason that names the registry entry E
NamesEntry(E) ==
    /\ result.category = "CATEGORY_C"
    /\ result.reason.text = "registry_mention"
    /\ \E i \in DOMAIN result.reason.names : result.reason.names[i] = E

\* C1: for every registry entry E of two tokens or more, a message that holds
\* the first two tokens of E as adjacent words in that order is answered
\* with CATEGORY_C and a reason naming E, whatever the LLM answers.
C1_AdjacentNameYieldsRegistryMention ==
    \A E \in inoagents :
        (/\ Returned
         /\ Len(tokens(E)) >= 2
         /\ AdjacentTokens(tokens(E)[1], tokens(E)[2]))
            => NamesEntry(E)

\* The only token of the message, normalized; <<>> when the message does
\* not consist of exactly one token
OnlyToken == IF Len(frame.norm_tokens) = 1 THEN frame.norm_tokens[1] ELSE <<>>

\* The message is one token that is stop-listed or shorter than 3 characters
SingleStopToken ==
    /\ Len(frame.norm_tokens) = 1
    /\ OnlyToken \in token_blacklist \/ Len(OnlyToken) < 3

\* C2: a message of exactly one token that is stop-listed or shorter than
\* 3 characters is answered CLEAN (CATEGORY_B for 'мат' only), before any
\* registry or alias pass and without any LLM call.
C2_SingleStopTokenShortCircuits ==
    (Returned /\ SingleStopToken)
        => /\ result.category = IF OnlyToken = w_mat THEN "CATEGORY_B" ELSE "CLEAN"
           /\ stages = {}
           /\ llmCalls = 0

C2_Witness ==
    /\ Returned
    /\ OnlyToken = w_kto
    /\ result.category = "CLEAN"
    /\ stages = {}

\* The message is empty or holds whitespace only
BlankMessage == \A i \in DOMAIN message : message[i] \in Whitespace

\* C3: an empty or whitespace-only message is answered CLEAN and no further
\* stage runs: no registry matching and no LLM call.
C3_BlankMessageSkipsEveryStage ==
    (Returned /\ BlankMessage)
        => /\ result.category = "CLEAN"
           /\ stages = {}
           /\ llmCalls = 0

\* The message itself corroborates a registry mention: it holds two tokens of
\* a registry entry, or a token the exact or the fuzzy alias pass accepts
LocallyCorroborated ==
    \/ \E E \in inoagents :
          Cardinality(Range(tokens(E)) \cap Range(frame.norm_tokens)) >= 2
    \/ alias_scan(frame.norm_tokens, 1) # NoName

\* C4: whatever the LLM answers at any of its calls, a CATEGORY_C result has
\* local corroboration in the message; the LLM alone never produces it.
C4_RegistryMentionLocallyCorroborated ==
    (Returned /\ result.category = "CATEGORY_C") => LocallyCorroborated

\* The classification answer is a text whose category reads CATEGORY_C
ClassifierReportsC ==
    /\ cls_response.kind = "text"
    /\ "C" \in cls_response.marks
    /\ cls_response.marks \cap {"A", "ogranicheny", "razgovory"} = {}
    /\ "B" \notin cls_response.marks

\* The message holds no name-like pair and no token that is a registered alias
NoLocalEvidence ==
    /\ frame.local_candidates = {}
    /\ \A i \in DOMAIN frame.norm_tokens :
          \A k \in DOMAIN pseudonyms : pseudonyms[k].alias # frame.norm_tokens[i]

\* C5: when the classification answer reports CATEGORY_C and the message
\* holds no local alias, registry or name-pair evidence, the result is CLEAN.
C5_UncorroboratedVerdictDowngraded ==
    (Returned /\ ClassifierReportsC /\ NoLocalEvidence)
        => result.category = "CLEAN"

C5_Witness ==
    /\ Returned
    /\ ClassifierReportsC
    /\ NoLocalEvidence
    /\ result.category = "CLEAN"
    /\ "classify_llm" \in stages

\* The classification request failed: it raised (a timeout included) or it
\* returned a value that is not a text
ClassifierFailed == cls_response.kind \in {"raise", "none", "number"}

\* The category the keyword lists give the normalized message
KeywordCategory ==
    IF \E w \in threat_words : Contains(_normalize(message), w) THEN "CATEGORY_A"
    ELSE IF \E w \in rude_words : Contains(_normalize(message), w) THEN "CATEGORY_B"
    ELSE "CLEAN"

\* C6: when the classification request fails, the call still returns a
\* result, its category is the one the keyword lists give (threat word:
\* CATEGORY_A, else rude word: CATEGORY_B, else CLEAN), never ERROR, and
\* no exception leaves the call.
C6_ClassifierFailureFallsBack ==
    (Returned /\ ClassifierFailed)
        => /\ result.category = KeywordCategory
           /\ result.category # "ERROR"
           /\ raised = ""

C6_Witness ==
    /\ Returned
    /\ cls_response.kind = "raise"
    /\ \E w \in rude_words : Contains(_normalize(message), w)
    /\ result.category = "CATEGORY_A"

\* C7: no exception leaves analyze_message; a call that has returned has
\* returned one AnalysisResult of category CLEAN, CATEGORY_A, CATEGORY_B,
\* CATEGORY_C or ERROR, and an ERROR result carries the message of the
\* exception in its reason.
C7_AlwaysOneWellFormedResult ==
    /\ raised = ""
    /\ Returned
          => /\ result.category \in Categories
             /\ result.category = "ERROR"
                   => result.reason = REASON_ERROR(ERR_REPLACE)

C7_Witness ==
    /\ Returned
    /\ result.category = "ERROR"
    /\ result.reason.detail = ERR_REPLACE
    /\ "alias_llm" \in stages

\* ------------------------------------------------------------------------
\* Properties of SpamDetectorAgent.check_spam
\* ------------------------------------------------------------------------

\* The texts of the window
WindowTexts == {history[i].text : i \in 1..Len(history)}

\* Some entry of the window is as similar to the text as the threshold asks
ReachesThreshold(text) ==
    \E t \in WindowTexts :
       FracGE(_calculate_similarity(text, t), SPAM_SIMILARITY_THRESHOLD)

\* The fraction is 1.0
IsOne(x) == x[1] = x[2]

\* C8: when the window holds the text checked, check_spam returns is_spam
\* with similarity 1.0 and reports an entry of the window of similarity 1.0;
\* when every entry of the window is below the threshold (an empty window
\* included), it returns not is_spam with an empty matched text; is_spam is
\* true exactly when the maximum similarity over the window reaches the
\* threshold.
C8_SpamCheckContract ==
    spam_result.checked =>
        LET r == spam_result.result
            T == spam_result.text
        IN  /\ T \in WindowTexts =>
                  /\ r.is_spam
                  /\ IsOne(r.similarity_score)
                  /\ r.similar_message \in WindowTexts
                  /\ IsOne(_calculate_similarity(T, r.similar_message))
            /\ ~ReachesThreshold(T) =>
                  /\ ~r.is_spam
                  /\ r.similar_message = <<>>
            /\ r.is_spam <=> ReachesThreshold(T)

\* A check of a text the window holds, and with it an entry that differs
\* from the text in case only
C8_Witness ==
    /\ spam_result.checked
    /\ spam_result.text = s_ab
    /\ WindowTexts = {s_ab, s_AB}
    /\ spam_result.result.is_spam

\* A check of a text close to an entry of the window and below the threshold
C8_WitnessBelow ==
    /\ spam_result.checked
    /\ spam_result.text = s_abcdex
    /\ s_abcdef \in WindowTexts
    /\ ~spam_result.result.is_spam

\* ------------------------------------------------------------------------
\* Properties of ModerationBot.process_message
\* ------------------------------------------------------------------------

\* C9: after process_message has handled a message, flagged as spam or not,
\* the message is the newest entry of the spam window.
C9_EveryProcessedMessageAppended ==
    last.outcome \in {"spam", "moderated"} =>
        /\ Len(history) > 0
        /\ history[Len(history)] = Entry(last.text, last.user)

\* C10: a message is flagged as spam only when a text sent before in its own
\* chat is as similar to it as the threshold asks.
C10_SpamWindowPerChat ==
    last.outcome = "spam" =>
        \E t \in last.earlier :
           FracGE(_calculate_similarity(last.text, t), SPAM_SIMILARITY_THRESHOLD)

\* ------------------------------------------------------------------------
\* Properties of SpamDetectorAgent.add_message
\* ------------------------------------------------------------------------

\* The last n elements of s, all of s when it holds fewer
LastN(s, n) == IF Len(s) <= n THEN s ELSE SubSeq(s, Len(s) - n + 1, Len(s))

\* The entries add_message can be called with
SpamEntries == {Entry(text, user) : text \in SpamTexts, user \in Users}

\* C11: the window never holds more than history_size entries; a call of
\* add_message appends its message as the newest entry, keeps the entries
\* before it in their order and, when the window was full, evicts the oldest
\* entry and no other; check_spam leaves the window as it is.
C11_WindowIsStrictFifo ==
    [][/\ Len(history') <= HistorySize
       /\ adds' # adds =>
              \E e \in SpamEntries :
                 history' = LastN(Append(history, e), HistorySize)
       /\ adds' = adds => history' = history]_vars

\* A call of add_message has found the window full
C11_Witness ==
    /\ adds > HistorySize
    /\ Len(history) = HistorySize
    /\ history[1] # history[HistorySize]

\* ------------------------------------------------------------------------
\* The order of the outcomes of process_message
\* ------------------------------------------------------------------------

\* The direct pass over the registry accepts the text
MatchesRegistryEntry(text) == DirectMatches(text, Frame(text)) # {}

\* The check of the window found the text of the call itself
DuplicatesWindowText ==
    /\ last.spam.is_spam
    /\ last.spam.similar_message = last.text
    /\ IsOne(last.spam.similarity_score)

\* C12: a message that matches a registry entry and duplicates a text of
\* the spam window is answered with the registry mention (CATEGORY_C), not
\* with the spam verdict.
C12_RegistryMentionBeforeSpam ==
    (/\ last.outcome \in {"spam", "moderated"}
     /\ MatchesRegistryEntry(last.text)
     /\ DuplicatesWindowText)
        => /\ last.outcome = "moderated"
           /\ last.category = "CATEGORY_C"

\* ------------------------------------------------------------------------
\* The local passes and the LLM
\* ------------------------------------------------------------------------

\* The call has returned CATEGORY_C from a local pass (the direct pass, the
\* exact or fuzzy alias pass, the name-pair pass): neither the alias answer
\* nor the classification answer of the LLM has been read
ReturnedLocalRegistryMention ==
    /\ Returned
    /\ result.category = "CATEGORY_C"
    /\ "alias_llm" \notin stages
    /\ "classify_llm" \notin stages

\* C13: when analyze_message returns CATEGORY_C because of a local pass, no
\* LLM call has been made for the message.
C13_LocalHitMakesNoLLMCall ==
    ReturnedLocalRegistryMention => llmCalls = 0

\* ------------------------------------------------------------------------
\* C14: the fast path of MultiLevelAnalyzer.analyze
\* ------------------------------------------------------------------------

\* handle_message has run analyze on the message and analyze has returned
Analyzed == handler_pc = "done" /\ ~IsCommand(user_text) /\ error = ""

\* neither the RKN check nor the contextual check reports a violation
NoEarlierLevelFires ==
    /\ _check_rkn_violations(user_text) = <<>>
    /\ check_contextual_reference(banned_domains_mentioned, user_text, chat_id) = {}

\* C14: when no earlier level fires and the heuristic score is below
\* fast_check_threshold, analyze returns risk_level 'low' with the heuristic
\* score as final_score, analysis_type 'heuristic' and no actions, and
\* analyze_toxicity has not been called.
C14_LowScoreIsLowWithoutLLM ==
    (/\ Analyzed
     /\ FloatLT(heuristic_score, fast_check_threshold)
     /\ NoEarlierLevelFires)
        => /\ analysis = Analysis("low", Float(heuristic_score), <<>>, "heuristic")
           /\ llm_requests = 0
           /\ llm_response = NoAnswer

\* a message with a score between 0.2 and 0.3 has been analyzed
C14_Witness ==
    /\ Analyzed
    /\ NoEarlierLevelFires
    /\ FloatGT(heuristic_score, F_0_2)
    /\ FloatLT(heuristic_score, fast_check_threshold)

\* ------------------------------------------------------------------------
\* C15: the escalation to the LLM
\* ------------------------------------------------------------------------

\* the heuristic score of the message in hand is above deep_analysis_threshold
Escalates ==
    /\ handler_pc # "idle"
    /\ ~IsCommand(user_text)
    /\ FloatGT(heuristic_score, deep_analysis_threshold)

\* the LLM answered with a JSON object that carries a number as
\* toxicity_score and a risk_level
LLMReported ==
    /\ llm_response.outcome = "status 200"
    /\ llm_response.valid_json
    /\ llm_response.json.type = "object"
    /\ llm_response.json.toxicity_score.kind = "number"
    /\ llm_response.json.risk_level.kind = "string"

\* f is the larger of x and y
IsMaxOf(f, x, y) == (f = x \/ f = y) /\ NumGE(f, x) /\ NumGE(f, y)

\* C15: a message whose heuristic score is above deep_analysis_threshold
\* makes analyze call analyze_toxicity exactly once, and the result carries
\* the larger of the heuristic score and the toxicity_score of the LLM as
\* final_score and the risk_level the LLM reported; a message whose score is
\* not above the threshold, 0.6 itself included, makes no call.
C15_HighScoreEscalatesOnce ==
    /\ (Escalates /\ NoEarlierLevelFires) => llm_requests = 1
    /\ (Escalates /\ Analyzed /\ LLMReported)
          => /\ IsMaxOf(analysis.final_score, Float(heuristic_score),
                        llm_response.json.toxicity_score.value)
             /\ analysis.risk_level = llm_response.json.risk_level.value
             /\ analysis.analysis_type = "deep_llm"
    /\ ~Escalates => llm_requests = 0 /\ llm_response = NoAnswer

\* the LLM has reported a score above the heuristic score of an escalated
\* message
C15_Witness ==
    /\ Escalates
    /\ Analyzed
    /\ LLMReported
    /\ NumGT(llm_response.json.toxicity_score.value, Float(heuristic_score))

\* a message that scores exactly 0.6 has been analyzed
C15_WitnessAtThreshold ==
    /\ Analyzed
    /\ heuristic_score = deep_analysis_threshold

\* ------------------------------------------------------------------------
\* C16: the middle band
\* ------------------------------------------------------------------------

\* the heuristic score is at least fast_check_threshold and at most
\* deep_analysis_threshold
MiddleBand ==
    /\ FloatGE(heuristic_score, fast_check_threshold)
    /\ ~FloatGT(heuristic_score, deep_analysis_threshold)

\* C16: for a heuristic score in the middle band analyze returns risk_level
\* 'medium' from the heuristic alone, without a call of the LLM and with no
\* actions, and handle_message neither deletes the message nor sends a
\* warning.
C16_MiddleBandIsMediumUntouched ==
    (Analyzed /\ MiddleBand /\ NoEarlierLevelFires)
        => /\ analysis = Analysis("medium", Float(heuristic_score), <<>>, "heuristic")
           /\ llm_requests = 0
           /\ llm_response = NoAnswer
           /\ remediated = [deleted |-> FALSE, warned |-> FALSE]

\* a message that could be deleted and scores between the two thresholds has
\* been analyzed
C16_Witness ==
    /\ Analyzed
    /\ NoEarlierLevelFires
    /\ deletable
    /\ FloatGT(heuristic_score, fast_check_threshold)
    /\ FloatLT(heuristic_score, deep_analysis_threshold)

\* ------------------------------------------------------------------------
\* C17: the range of final_score
\* ------------------------------------------------------------------------

\* 0 <= x <= 1
InUnitInterval(x) == NumGE(x, Float(F_0_0)) /\ ~NumGT(x, Float(F_1_0))

\* C17: every AnalysisResult that analyze returns has a final_score in
\* [0, 1], whatever the message and whatever the LLM endpoint answers.
C17_FinalScoreInUnitInterval == Analyzed => InUnitInterval(analysis.final_score)

\* ------------------------------------------------------------------------
\* C19: the degradation when the LLM fails
\* ------------------------------------------------------------------------

\* the request of analyze_toxicity failed: a status other than 200, an
\* exception, or a content that is not JSON
LLMFailed ==
    /\ llm_response # NoAnswer
    /\ llm_response.outcome # "status 200" \/ ~llm_response.valid_json

\* the order of the risk levels, 0 for a level that is none of them
RiskRank(level) ==
    IF level = "low" THEN 1
    ELSE IF level = "medium" THEN 2
    ELSE IF level = "high" THEN 3
    ELSE IF level = "critical" THEN 4
    ELSE 0

\* C19: when the LLM call fails for a message whose heuristic score is above
\* deep_analysis_threshold, the risk level analyze returns is at least
\* 'medium', the level the heuristic alone gives a score of the middle band.
C19_FailureIsNotLessSevere ==
    (Analyzed /\ Escalates /\ LLMFailed) => RiskRank(analysis.risk_level) >= RiskRank("medium")

\* ------------------------------------------------------------------------
\* C18: the score of HeuristicAnalyzer.analyze
\* ------------------------------------------------------------------------

\* the patterns of danger_phrases and the words of aggressive_words that the
\* text matches
MatchedDanger(text) ==
    {i \in DOMAIN danger_phrases : SearchPhrase(danger_phrases[i], Lower(text))}
MatchedAggressive(text) ==
    {i \in DOMAIN aggressive_words : Contains(Lower(text), aggressive_words[i])}

\* The score the text is to get, in thousandths: 100 per matched pattern and
\* 50 per matched word, times 1.3 when the text has more than 20 words and
\* the sum is above 200, and 1000 at most
ExactThousandths(text) ==
    LET sum == 100 * Cardinality(MatchedDanger(text))
                  + 50 * Cardinality(MatchedAggressive(text))
        scaled == IF WordCount(text) > 20 /\ sum > 200 THEN (sum * 13) \div 10 ELSE sum
    IN  IF scaled > 1000 THEN 1000 ELSE scaled

\* a <= b of naturals
NatLE(a, b) == ~NatLess(b, a)

\* 2^-40 in thousandths of the unit of the floats: the distance below which a
\* float counts as the decimal number it stands for
Tolerance == ShiftLeft(Bits(1000), 17)

\* the float x is the number of m thousandths, up to the rounding of the
\* float operations
Near(x, m) ==
    LET scaled == NatMul(x, Bits(1000))
        exact == ShiftLeft(Bits(m), 57)
    IN  /\ NatLE(scaled, NatAdd(exact, Tolerance))
        /\ NatLE(exact, NatAdd(scaled, Tolerance))

\* C18: the score of analyze is in [0, 1]; it is 0.1 per matched
\* danger-phrase pattern plus 0.05 per matched aggressive word, times 1.3
\* only when the text has more than 20 words and the sum is above 0.2, and
\* 1.0 at most; a text that matches no pattern scores 0.
C18_HeuristicScore ==
    scored.called =>
        /\ NatLE(scored.score, F_1_0)
        /\ Near(scored.score, ExactThousandths(scored.text))
        /\ (MatchedDanger(scored.text) = {} /\ MatchedAggressive(scored.text) = {})
              => scored.score = F_0_0

\* a text of more than 20 words whose multiplied sum is above 1 has been
\* scored 1.0
C18_Witness ==
    /\ scored.called
    /\ WordCount(scored.text) > 20
    /\ Cardinality(MatchedDanger(scored.text)) = Len(danger_phrases)
    /\ Cardinality(MatchedAggressive(scored.text)) = Len(aggressive_words)
    /\ scored.score = F_1_0

\* a text of more than 20 words has been scored with the multiplied sum
C18_WitnessScaled ==
    /\ scored.called
    /\ WordCount(scored.text) > 20
    /\ Near(scored.score, 390)

\* a text of 20 words whose sum is above 0.2 has been scored with the sum
C18_WitnessTwentyWords ==
    /\ scored.called
    /\ WordCount(scored.text) = 20
    /\ Near(scored.score, 300)

\* ------------------------------------------------------------------------
\* C20: the classification terminates
\* ------------------------------------------------------------------------

\* analyze_message is suspended at a call of self.client.generate
AwaitingLLM == pc \in {"alias_small", "alias", "classify"}

C20_AnalysisTerminates == (handler_pc = "awaiting_llm") ~> (handler_pc = "done")

\* ------------------------------------------------------------------------
\* C21: the parse of an answer that is off the template
\* ------------------------------------------------------------------------

\* the classification request was answered with a text that holds none of
\* the category tokens CATEGORY_A, CATEGORY_B, CATEGORY_C
OffTemplateAnswer ==
    /\ Returned
    /\ "classify_llm" \in stages
    /\ cls_response.kind = "text"
    /\ cls_response.marks \cap {"A", "B", "C"} = {}

\* C21: a classification answer that holds none of the category tokens makes
\* analyze_message return CLEAN, and no exception leaves the call.
C21_OffTemplateAnswerIsClean ==
    OffTemplateAnswer => result.category = "CLEAN" /\ raised = ""

\* ------------------------------------------------------------------------
\* Properties of ContextualMentionTracker
\* ------------------------------------------------------------------------

\* The domains the tracker held for the chat of the last check
TrackedForCheck == get(checked_reference.mentioned, checked_reference.chat, {})

\* The text of the last check matches a back-reference pattern
HasBackReference == has_context(Lower(checked_reference.text))

\* C22: after track_mention(chat, d) for a domain d whose stem is longer than
\* 3 characters, check_contextual_reference(text, chat) reports d when the
\* text holds a back-reference phrase and the stem of d, and it returns
\* nothing for a text that matches no back-reference pattern.
C22_TrackedStemWithPhraseIsReported ==
    checked_reference.called =>
        /\ \A d \in TrackedForCheck :
              (/\ Len(DomainName(d)) > 3
               /\ HasBackReference
               /\ Contains(checked_reference.text, DomainName(d)))
                  => d \in checked_reference.violations
        /\ ~HasBackReference => checked_reference.violations = {}

\* track_mention was called with the chat and the domain
WasTracked(chat, domain) ==
    /\ chat \in DOMAIN mention_history
    /\ \E i \in DOMAIN mention_history[chat] : mention_history[chat][i].domain = domain

\* The step is a call of check_contextual_reference
CheckStep == checked_reference' # checked_reference

\* C23: check_contextual_reference(text, c) reports a domain only if
\* track_mention was called before with the chat c and that domain, so a chat
\* with nothing tracked gets nothing, and the call leaves the state of the
\* tracker as it was.
C23_OnlyDomainsTrackedInTheChat ==
    [][CheckStep =>
          /\ \A d \in checked_reference'.violations :
                WasTracked(checked_reference'.chat, d)
          /\ ~(checked_reference'.chat \in DOMAIN mention_history)
                => checked_reference'.violations = {}
          /\ UNCHANGED <<banned_domains_mentioned, mention_history>>]_vars

\* A check was made in a chat that has a domain tracked, with a text that
\* holds a back-reference phrase and the stem of a domain tracked in another
\* chat only
C23_Witness ==
    /\ checked_reference.called
    /\ TrackedForCheck # {}
    /\ HasBackReference
    /\ \E c \in DOMAIN checked_reference.mentioned \ {checked_reference.chat} :
          \E d \in checked_reference.mentioned[c] \ TrackedForCheck :
              /\ Len(DomainName(d)) > 3
              /\ Contains(Lower(checked_reference.text), DomainName(d))

\* ------------------------------------------------------------------------
\* Properties of EnhancedAlternativesAgent.batch_find_alternatives
\* ------------------------------------------------------------------------

\* The tasks that are inside find_alternatives, holding the semaphore
InFlight == {i \in DOMAIN tasks : tasks[i].pc = "in_flight"}

\* C24: while batch_find_alternatives runs, at most max_concurrent
\* find_alternatives calls are in flight at any moment.
C24_AtMostMaxConcurrentInFlight ==
    batch_pc = "gathering" => Cardinality(InFlight) <= max_concurrent

\* max_concurrent calls are in flight and a further task waits
C24_Witness ==
    /\ batch_pc = "gathering"
    /\ Cardinality(InFlight) = max_concurrent
    /\ \E i \in DOMAIN tasks : tasks[i].pc = "waiting"

\* The lookup of the task failed: the LLM raised or the request timed out
LookupFailed(i) == tasks[i].llm \in {"error", "timeout"}

\* The result of task i is the one its own lookup gives
OwnResult(i) ==
    /\ tasks[i].result.original_domain = _extract_domain(tasks[i].url)
    /\ LookupFailed(i) => tasks[i].result.kind = "fallback"
    /\ tasks[i].llm = "answer" => tasks[i].result.kind = "parsed"
    /\ tasks[i].llm = "cache_hit" => tasks[i].result.kind = "parsed"

\* The dictionary returned holds, for every url of the call, the result of a
\* task of that url, and every task has the result of its own lookup
EveryUrlHasItsOwnEntry ==
    batch_pc = "returned" =>
        /\ DOMAIN results = Range(batch_urls)
        /\ \A i \in DOMAIN tasks : OwnResult(i)
        /\ \A u \in DOMAIN results :
              \E i \in DOMAIN tasks : tasks[i].url = u /\ results[u] = tasks[i].result

\* C25: when the lookup of one url fails, the lookups of the other urls still
\* complete, and the dictionary batch_find_alternatives returns has an entry
\* for every url, each one reporting the success or failure of that url.
C25_FailureIsIsolated ==
    /\ []EveryUrlHasItsOwnEntry
    /\ (batch_pc = "gathering") ~> (batch_pc = "returned")

\* A batch returned in which one lookup failed and another one succeeded
C25_Witness ==
    /\ batch_pc = "returned"
    /\ \E i, k \in DOMAIN tasks :
          /\ LookupFailed(i)
          /\ tasks[k].llm = "answer"
          /\ tasks[i].url # tasks[k].url
          /\ results[tasks[i].url].kind = "fallback"
          /\ results[tasks[k].url].kind = "parsed"

\* ------------------------------------------------------------------------
\* Properties of repeated calls of analyze_message
\* ------------------------------------------------------------------------

C27_AliasMapWellFormed ==
    \A a \in DOMAIN self_pseudonyms :
        /\ Len(_normalize(a)) >= 3
        /\ a \notin pseudo_blacklist
        /\ self_pseudonyms[a] \in self_inoagents
        /\ Len(tokens(self_pseudonyms[a])) >= 2

\* ------------------------------------------------------------------------
\* Properties of the loose name-pair pass
\* ------------------------------------------------------------------------

\* The pairs of consecutive words of the message: a word of Cyrillic letters
\* that starts at i, whitespace, and the word of Cyrillic letters after it
ConsecutiveWordPairs ==
    {SubSeq(message, i, RunEnd(message, RunEnd(message, RunEnd(message, i, CyrChars) + 1, Whitespace) + 1, CyrChars)) :
        i \in {j \in DOMAIN message :
                 /\ message[j] \in CyrChars
                 /\ (j = 1 \/ message[j - 1] \notin CyrChars)
                 /\ LET r1 == RunEnd(message, j, CyrChars)
                    IN  /\ r1 + 1 <= Len(message)
                        /\ message[r1 + 1] \in Whitespace
                        /\ LET ws == RunEnd(message, r1 + 1, Whitespace)
                           IN  ws + 1 <= Len(message) /\ message[ws + 1] \in CyrChars}}

\* Two consecutive words of the message, neither a pronoun nor stop-listed,
\* share two tokens with the registry entry E
HasNamePairOf(E) ==
    \E p \in ConsecutiveWordPairs :
        /\ SharesTwoTokens(_normalize(p), E)
        /\ \A part \in Range(Split(_normalize(p))) :
              part \notin pronouns \cup token_blacklist

\* The passes before the name-pair pass found nothing in the message
NoEarlierLocalHit ==
    /\ DirectMatches(message, frame) = {}
    /\ alias_scan(frame.norm_tokens, 1) = NoName

\* C30: when two consecutive words of the message, at any position and in
\* either order, hold no pronoun and no stop-listed token and share two
\* tokens with a registry entry, and the message has no frequency-context
\* word (and no earlier pass has a hit), analyze_message returns CATEGORY_C
\* naming that entry.
C30_NamePairYieldsRegistryMention ==
    \A E \in inoagents :
        (/\ Returned
         /\ NoEarlierLocalHit
         /\ HasNamePairOf(E)
         /\ ~InFrequencyContext(frame))
            => NamesEntry(E)

\* The call returned from the name-pair pass
ReturnedByPairPass ==
    Returned /\ "pair" \in stages /\ "alias_llm" \notin stages

\* The call went past the single-token guard
PastGuard ==
    ~(Len(frame.norm_tokens) = 1 /\ ShortOrListed(frame.norm_tokens[1], token_blacklist))

\* The result is CATEGORY_C with the reason of a registry mention
RegistryMention ==
    result.category = "CATEGORY_C" /\ result.reason.text = "registry_mention"

\* C31: in a message with a frequency-context word, the name-pair pass
\* returns no registry match when a name-pair candidate is the only local
\* evidence, while a direct match or an alias hit still yields CATEGORY_C.
C31_FrequencyContextSuppressesPairOnly ==
    (Returned /\ PastGuard /\ InFrequencyContext(frame)) =>
        IF NoEarlierLocalHit
        THEN ~ReturnedByPairPass
        ELSE RegistryMention /\ llmCalls = 0

\* A message with a name pair of the registry and a frequency-context word
\* went through the name-pair pass
C31_Witness ==
    /\ Returned
    /\ InFrequencyContext(frame)
    /\ NoEarlierLocalHit
    /\ PairMatches(frame) # {}
    /\ "pair" \in stages

\* C33: when no local pass has a hit and the answer to a per-token alias
\* query holds a full name that shares two tokens with a registry entry,
\* analyze_message returns CATEGORY_C naming that entry.
C33_TokenAnswerYieldsRegistryMention ==
    (NoEarlierLocalHit /\ small_named # {}) =>
        /\ Returned
        /\ \E E \in small_named : NamesEntry(E)

\* The step is a call of cleanup_old_mentions
CleanupStep == cleanup_at' # cleanup_at

\* The entries of the history of the chat whose age at the time of the step
\* is below cleanup_hours
RecentMentions(chat) ==
    SelectSeq(mention_history[chat],
              LAMBDA m : clock - m.timestamp < cleanup_hours)

\* The entries of the history of the chat that are not older than the
\* horizon at the time of the step: their age is at most cleanup_hours
NotOlderMentions(chat) ==
    SelectSeq(mention_history[chat],
              LAMBDA m : clock - m.timestamp <= cleanup_hours)

\* A call of cleanup_old_mentions leaves in every history the entries that
\* remaining(chat) gives, within max_history entries, and leaves the
\* flagged domains and what check_contextual_reference reports as they are
CleanupLeaves(remaining(_)) ==
    CleanupStep =>
        /\ DOMAIN mention_history' = DOMAIN mention_history
        /\ \A chat \in DOMAIN mention_history :
              /\ mention_history'[chat] = remaining(chat)
              /\ Len(mention_history'[chat]) <= max_history
        /\ banned_domains_mentioned' = banned_domains_mentioned
        /\ \A text \in ReferenceTexts, chat \in Chats :
              check_contextual_reference(banned_domains_mentioned', text, chat)
                  = check_contextual_reference(banned_domains_mentioned, text, chat)

\* C37 as stated: cleanup_old_mentions removes from the history of each
\* chat exactly the entries older than the cleanup horizon, keeps the others
\* in order and within max_history entries, and leaves the flagged domains
\* of every chat and the reports of check_contextual_reference unchanged.
C37_CleanupAsStated == [][CleanupLeaves(NotOlderMentions)]_vars

\* C37: cleanup_old_mentions removes from the history of each chat exactly
\* the entries as old as the cleanup horizon or older, keeps the others in
\* order and within max_history entries, and leaves the set of flagged
\* domains of every chat as it is, so that check_contextual_reference
\* reports what it reported before.
C37_CleanupPurgesOldMentionsOnly == [][CleanupLeaves(RecentMentions)]_vars

\* A cleanup has emptied the history of a chat and a domain of that chat is
\* still reported by check_contextual_reference
C37_Witness ==
    /\ cleanup_at >= 0
    /\ \E chat \in DOMAIN mention_history :
          /\ mention_history[chat] = <<>>
          /\ \E text \in ReferenceTexts :
                check_contextual_reference(banned_domains_mentioned, text, chat) # {}

\* C38: in every run of analyze calls the analyzer records no domain into
\* the contextual tracker and the RKN check reports nothing, so every result
\* has analysis_type 'heuristic' or 'deep_llm': neither the 'rkn_check'
\* result (critical) nor the 'context_check' result (high, 0.8) is produced.
C38_OnlyHeuristicOrDeepResults ==
    /\ banned_domains_mentioned = <<>>
    /\ handler_pc # "idle" => _check_rkn_violations(user_text) = <<>>
    /\ analysis # NoAnalysis =>
          /\ analysis.analysis_type \in {"heuristic", "deep_llm"}
          /\ analysis \notin {_create_rkn_violation_result,
                              _create_context_violation_result}

\* analyze has returned a heuristic result for a message that holds a
\* back-reference phrase
C38_Witness ==
    /\ Analyzed
    /\ has_context(Lower(user_text))
    /\ analysis.analysis_type = "heuristic"

\* The keys of the cache and its entries as pairs of key and value
KeysOf(od) == {od[i].key : i \in DOMAIN od}
EntriesOf(od) == {<<od[i].key, od[i].value>> : i \in DOMAIN od}

\* The step is a call of get or put
CacheStep == lru_call'.n # lru_call.n

\* The key of the cache that a get or a put touched longest ago
LeastRecentlyTouched(victim) ==
    /\ victim \in KeysOf(lru)
    /\ \A k \in KeysOf(lru) : touched_at[victim] <= touched_at[k]

\* What a call of get does: a key that is not there gives None and leaves
\* the cache as it is, a key that is there gives its value and leaves the
\* entries as they are
GetEffect ==
    LET key == lru_call'.key
    IN  IF has_key(lru, key)
        THEN /\ lru_call'.returned = value_of(lru, key)
             /\ EntriesOf(lru') = EntriesOf(lru)
        ELSE /\ lru_call'.returned = "None"
             /\ lru' = lru

\* What a call of put does: the key holds the value and is the most recent,
\* the other entries stay, but for the least recently touched one when the
\* cache was full and the key was new
PutEffect ==
    LET key == lru_call'.key
        others == {e \in EntriesOf(lru) : e[1] # key}
        put == <<key, lru_call'.value>>
    IN  /\ lru'[Len(lru')] = [key |-> key, value |-> lru_call'.value]
        /\ IF has_key(lru, key) \/ Len(lru) < lru_maxsize
           THEN EntriesOf(lru') = others \cup {put}
           ELSE \E victim \in KeysOf(lru) :
                   /\ LeastRecentlyTouched(victim)
                   /\ EntriesOf(lru') = {e \in others : e[1] # victim} \cup {put}

\* C39: after any calls of get and put the cache holds at most maxsize
\* entries, one for a key; a put that overflows the cache evicts exactly the
\* entry that a get or a put touched longest ago, a put of a key that is
\* there updates its value and makes it the most recent, and get of a key
\* that is not there returns None and leaves the cache as it is.
C39_LRUCacheEvictsLeastRecentlyTouched ==
    /\ [](Len(lru) <= lru_maxsize /\ Cardinality(KeysOf(lru)) = Len(lru))
    /\ [][CacheStep => IF lru_call'.op = "get" THEN GetEffect ELSE PutEffect]_vars

\* A put has overflowed the cache and evicted a key that was touched after
\* the first two calls and before the last touch of the key that stays
C39_Witness ==
    /\ lru_call.op = "put"
    /\ Len(lru_call.before) = lru_maxsize
    /\ ~has_key(lru_call.before, lru_call.key)
    /\ \E victim \in KeysOf(lru_call.before) \ KeysOf(lru) :
       \E kept \in KeysOf(lru) \ {lru_call.key} :
          /\ touched_at[victim] > 2
          /\ touched_at[kept] > touched_at[victim]

\* The step takes task i into find_alternatives, up to its await
Enters(i) == tasks[i].pc = "waiting" /\ tasks'[i].pc # "waiting"

\* The step ends the request of task i to the LLM
RequestEnds(i) == tasks[i].pc = "in_flight" /\ tasks'[i].pc = "done"

\* What find_alternatives does with the cache in a step: a call whose
\* domain is cached returns the cached result and makes no request, any
\* other call makes the request; a request that is answered stores the
\* result under the domain, one that fails or times out returns a fallback
\* result and leaves the cache as it is
FindAlternativesStep ==
    \A i \in DOMAIN tasks : \E key \in {_extract_domain(tasks[i].url)} :
       /\ Enters(i) =>
             IF has_key(cache, key)
             THEN /\ tasks'[i].pc = "done"
                  /\ tasks'[i].llm = "cache_hit"
                  /\ tasks'[i].result = value_of(cache, key)
                  /\ EntriesOf(cache') = EntriesOf(cache)
             ELSE /\ tasks'[i].pc = "in_flight"
                  /\ cache' = cache
       /\ RequestEnds(i) =>
             IF tasks'[i].llm = "answer"
             THEN /\ tasks'[i].result.kind = "parsed"
                  /\ has_key(cache', key)
                  /\ value_of(cache', key) = tasks'[i].result
             ELSE /\ tasks'[i].llm \in {"error", "timeout"}
                  /\ tasks'[i].result.kind = "fallback"
                  /\ cache' = cache

\* C40: find_alternatives stores a result in the cache only after an answer
\* of the LLM: the cache never holds a fallback result, a request that fails
\* or times out leaves the cache as it is, so that a later call for the
\* domain makes the request again, and a call that finds its domain in the
\* cache makes no request.
C40_OnlyAnswersAreCached ==
    /\ [](\A i \in DOMAIN cache : cache[i].value.kind = "parsed")
    /\ [][FindAlternativesStep]_vars

\* With one call at a time: a request for a domain has ended with a
\* fallback result, a later call for the same domain has made the request
\* again and was answered, and a third call was served from the cache
C40_Witness ==
    /\ max_concurrent = 1
    /\ \E i, j, k \in DOMAIN tasks :
          /\ tasks[i].llm \in {"error", "timeout"}
          /\ tasks[j].llm = "answer"
          /\ tasks[k].llm = "cache_hit"
          /\ _extract_domain(tasks[j].url) = _extract_domain(tasks[i].url)
          /\ _extract_domain(tasks[k].url) = _extract_domain(tasks[i].url)
          /\ tasks[k].result = tasks[j].result

\* ------------------------------------------------------------------------
\* Properties of the bans
\* ------------------------------------------------------------------------

\* C34: once process_message has handled a message that recorded a violation
\* of category A or B, the user is banned if the recorded count is at
\* MAX_VIOLATIONS_FOR_BAN or above; no user stays unbanned with such a count.
C34_BannedAtTheLimit ==
    /\ (/\ last.outcome = "moderated"
        /\ last.category \in {"CATEGORY_A", "CATEGORY_B"}
        /\ ~unban_cmd.called
        /\ violations[last.user] >= MAX_VIOLATIONS_FOR_BAN)
            => last.user \in bans
    /\ \A u \in Users :
          violations[u] >= MAX_VIOLATIONS_FOR_BAN => u \in bans

\* Every banned user has MAX_VIOLATIONS_FOR_BAN recorded violations or more
BannedUsersAreAtTheLimit ==
    \A u \in bans : violations[u] >= MAX_VIOLATIONS_FOR_BAN

\* The step is an /unban command
UnbanStep == ~unban_cmd.called /\ unban_cmd'.called

\* An /unban of an administrator for a banned user lifts the ban and clears
\* the violations of that user and of no other; any other /unban changes
\* neither
UnbanEffect ==
    LET target == unban_cmd'.target
    IN  IF unban_cmd'.is_admin /\ target \in bans
        THEN /\ bans' = bans \ {target}
             /\ violations'[target] = 0
             /\ \A u \in Users \ {target} : violations'[u] = violations[u]
             /\ UNCHANGED <<history, stored>>
        ELSE UNCHANGED <<bans, violations, history, stored>>

\* C35: in every state reached by processed messages and /unban commands a
\* banned user has at least MAX_VIOLATIONS_FOR_BAN recorded violations; an
\* admin unban lifts the ban and resets the count to 0 together, and an
\* unban by a non-admin or for a user who is not banned changes nothing.
C35_BansAndUnbans ==
    /\ []BannedUsersAreAtTheLimit
    /\ [][UnbanStep => UnbanEffect]_vars

\* An administrator has unbanned a banned user
C35_Witness ==
    /\ unban_cmd.called
    /\ unban_cmd.outcome = "unbanned"
    /\ unban_cmd.target \notin bans
    /\ violations[unban_cmd.target] = 0

\* The step is a call of process_message for a user who is banned
BannedUserStep == handled' # handled /\ last'.user \in bans

\* C36: a message of a banned user is rejected before any processing: no
\* spam check, no classification, no violation, and the spam window and the
\* stored history stay as they are.
C36_BannedUserRejectedFirst ==
    [][BannedUserStep =>
          /\ last'.outcome = "banned"
          /\ last'.spam = NoCheck.result
          /\ last'.category = ""
          /\ UNCHANGED <<history, adds, stored, violations, bans>>]_vars

\* A banned user has sent a message that is already in the spam window
C36_Witness ==
    /\ last.outcome = "banned"
    /\ last.user \in bans
    /\ check_spam(history, last.text).is_spam

\* ------------------------------------------------------------------------
\* Properties of concurrent calls of process_message
\* ------------------------------------------------------------------------

\* Callers a and b have both returned, they were given the same text and
\* neither was rejected as banned
SameTextHandledTwice(a, b) ==
    /\ a # b
    /\ running[a].pc = "done" /\ running[b].pc = "done"
    /\ running[a].text = running[b].text
    /\ running[a].outcome # "banned" /\ running[b].outcome # "banned"

\* C32: two messages with identical text processed concurrently get the
\* verdicts of some sequential order: exactly one of the two is flagged as
\* spam, and the window holds the text once.
C32_ConcurrentIdenticalTextsLinearizable ==
    \A a, b \in Callers :
        SameTextHandledTwice(a, b) =>
            /\ (running[a].outcome = "spam") # (running[b].outcome = "spam")
            /\ Cardinality({i \in DOMAIN history :
                                history[i].text = running[a].text}) = 1

\* ------------------------------------------------------------------------
\* Properties of the alias pass
\* ------------------------------------------------------------------------

\* The call reached the alias pass: the single-token guard did not return and
\* there was no direct match
AliasPassRan == alias_checked.called /\ alias_checked.stage \in {"alias", "none"}

\* Token n of the message is one the alias pass looks at
Scanned(n) ==
    /\ n \in 1..Len(alias_checked.norm_tokens)
    /\ ~ShortOrListed(alias_checked.norm_tokens[n], token_blacklist)

\* The entries token n names by an alias equal to it
ExactEntries(n) ==
    {alias_checked.aliases[k].fio :
        k \in {j \in DOMAIN alias_checked.aliases :
                  alias_checked.aliases[j].alias = alias_checked.norm_tokens[n]}}

\* Token n has 4 characters or more and its transliteration has a ratio of
\* 0.80 or more to the Latin letters and digits, 4 or more, of alias k
RatioAccepted(n, k) ==
    LET p_ascii == AsciiOnly(alias_checked.aliases[k].alias)
    IN  /\ Len(alias_checked.norm_tokens[n]) >= 4
        /\ Len(p_ascii) >= 4
        /\ FracGE(ratio(_ru_to_lat(alias_checked.norm_tokens[n]), p_ascii),
                  <<80, 100>>)

\* The entries of the aliases token n is that similar to
SimilarEntries(n) ==
    {alias_checked.aliases[k].fio :
        k \in {j \in DOMAIN alias_checked.aliases : RatioAccepted(n, j)}}

\* The same when the transliteration of the token has 4 characters or more
FuzzyEntries(n) ==
    IF Len(_ru_to_lat(alias_checked.norm_tokens[n])) >= 4
    THEN SimilarEntries(n) ELSE {}

\* Token n is no alias itself and is similar only to aliases of entries that
\* the exact token m does not name
OnlyFuzzyForAnother(n, m) ==
    /\ Scanned(n)
    /\ ExactEntries(n) = {}
    /\ FuzzyEntries(n) # {}
    /\ FuzzyEntries(n) \cap ExactEntries(m) = {}

\* C28: when there is no direct match and the message has a token equal to
\* an alias of entry Y and another token that only fuzzy-matches an alias of
\* a different entry, the result names Y, wherever the two tokens stand.
C28_ExactAliasBeforeFuzzy ==
    AliasPassRan =>
        \A m \in DOMAIN alias_checked.norm_tokens :
            (/\ Scanned(m)
             /\ ExactEntries(m) # {}
             /\ \E n \in DOMAIN alias_checked.norm_tokens : OnlyFuzzyForAnother(n, m))
            => alias_checked.fio \in ExactEntries(m)

\* The first token the alias pass looks at for which hit(n) holds; 0 if none
FirstToken(hit(_)) ==
    LET ok == {n \in DOMAIN alias_checked.norm_tokens : Scanned(n) /\ hit(n)}
    IN  IF ok = {} THEN 0 ELSE CHOOSE n \in ok : \A j \in ok : n <= j

\* The alias pass resolves the first token that has an entry -- the one of
\* an alias equal to it, else one of entries(n) -- to that entry, and returns
\* no name when no token has one
ResolvesFirst(entries(_)) ==
    LET hit(n) == ExactEntries(n) # {} \/ entries(n) # {}
        first == FirstToken(hit)
    IN  AliasPassRan =>
            IF first = 0 THEN alias_checked.fio = NoName
            ELSE /\ alias_checked.stage = "alias"
                 /\ alias_checked.fio \in
                        (IF ExactEntries(first) # {} THEN ExactEntries(first)
                         ELSE entries(first))

\* C29 as stated: a token of 4 characters or more whose transliteration has
\* a ratio of 0.80 or more to the Latin projection (4 characters or more) of
\* an alias resolves to the entry of that alias; a token whose ratio to every
\* alias is below 0.80, or that is shorter than 4 characters, is not
\* fuzzy-matched.
C29_FuzzyAliasAsStated == ResolvesFirst(SimilarEntries)

\* C29: the same for the first token of the message the pass does not skip,
\* when the transliteration of the token, too, has 4 characters or more.
C29_FuzzyAlias == ResolvesFirst(FuzzyEntries)

\* A token that is no alias was resolved by its similarity to one
C29_Witness ==
    /\ AliasPassRan
    /\ alias_checked.stage = "alias"
    /\ \E n \in DOMAIN alias_checked.norm_tokens :
          /\ n = FirstToken(LAMBDA j : ExactEntries(j) # {} \/ FuzzyEntries(j) # {})
          /\ ExactEntries(n) = {}
          /\ alias_checked.fio \in FuzzyEntries(n)

====
